---- MODULE Spec2Model ----
(***************************************************************************)
(* Selector healing orchestrator of ResilientPage (src/src/resilient-page.ts). *)
(*                                                                         *)
(* One session (one ResilientPage object) is modelled.  Its action calls   *)
(* are issued one after the other, each awaited to completion.  Every      *)
(* await of healAndRetry is one step of the model: the bounded wait        *)
(* (locator.waitFor), the wrapped driver action (fn), the markup snapshot  *)
(* pull (page.content) and the provider call (suggestSelector).  The       *)
(* driver and the provider are the environment: each of their calls either *)
(* returns one of a small set of values or throws.                         *)
(*                                                                         *)
(* The variable io is what the driver and the provider have seen of the    *)
(* action call in flight: how often each of them was called, and with      *)
(* which arguments last.  It is what the mocks of                          *)
(* tests/unit/resilient-page.test.ts observe.  The timestamp field of a    *)
(* HealingEvent is wall-clock input and is left out of the event records.  *)
(*                                                                         *)
(* Specifications:                                                         *)
(*   Spec         one session, its provider being the environment;         *)
(*   SpecTwo      two sessions that the test turns between;                *)
(*   SpecHealer   one suggestSelector call on the composite healer of      *)
(*                tests/e2e/makemytrip.healer.ts, over every candidate     *)
(*                group, failed selector and markup of the model;          *)
(*   SpecService  one suggestSelector call on a service made by            *)
(*                createAIHealingService, with snapshots around the cap    *)
(*                of trimHtml.                                             *)
(*   SpecRemote   createAIHealingService and one suggestSelector call on   *)
(*                a remote provider, over the responses of its endpoint;   *)
(*   SpecConstruct  the constructor of ResilientPage, then the session;    *)
(*   SpecIndex    buildSelectorMap over catalogs of two groups;            *)
(*   SpecMcp      MCPConnection, its calls interleaving at their awaits;   *)
(*   SpecMcpPage  one session of ResilientMCPPage;                         *)
(*   SpecFixture  two sessions configured as the e2e fixture configures    *)
(*                them, their provider being the composite healer.         *)
(*   SpecSnapshots  one session on a page whose markup changes between    *)
(*                the pulls of page.content();                             *)
(*   SpecTerminates  one session, with weak fairness on the steps that     *)
(*                follow an await of a call in flight;                     *)
(*   SpecConcurrent  two action calls in flight on one session;            *)
(*   SpecTruncation  the composite healer asked with snapshots around the  *)
(*                cap of trimHtml, its remote tier being reached.          *)
(* Each specification keeps the variables of the others at their initial   *)
(* values.                                                                 *)
(***************************************************************************)
EXTENDS Integers, Sequences, FiniteSets, TLC

\* ---------------------------------------------------------------------
\* Bounds of the model
\* ---------------------------------------------------------------------

\* Number of action calls issued on the session.
MaxCalls == 2

\* Largest value of maxHealingRetries a session is configured with.
MaxRetriesConfig == 2

\* Selector strings: arguments of the action calls and provider suggestions.
Selectors == {"#a", "#b", "#c"}

\* Markup snapshots page.content() can return.
Markups == {"<html>"}

\* The public methods the caller of the session invokes: a wrapper that
\* awaits afterAction and a read wrapper that does not (and goto).
CalledMethods == {"click", "textContent"}

\* ---------------------------------------------------------------------
\* Program constants
\* ---------------------------------------------------------------------

\* DEFAULT_CONFIG.maxHealingRetries
DefaultMaxHealingRetries == 1

\* aiService = null (DEFAULT_CONFIG.ai = false)
NoService == "null"

\* providerName of the services createAIHealingService builds
ProviderNames == {"custom", "anthropic", "openai"}

\* The public self-healing wrappers of ResilientPage.
HealingMethods ==
  {"click", "fill", "textContent", "innerText", "inputValue", "isVisible"}

\* The action string each wrapper hands to healAndRetry.
ActionLiteral(m) ==
  CASE m = "click"       -> "click"
    [] m = "fill"        -> "fill"
    [] m = "textContent" -> "textContent"
    [] m = "innerText"   -> "innerText"
    [] m = "inputValue"  -> "inputValue"
    [] m = "isVisible"   -> "isVisible"

\* click and fill await afterAction once healAndRetry has returned.
CallsAfterAction(m) == m \in {"click", "fill"}

\* ---------------------------------------------------------------------
\* Errors
\* ---------------------------------------------------------------------

\* An error value: where it was created and what its message holds.
Err(kind, sel, bound, text) ==
  [kind |-> kind, selector |-> sel, bound |-> bound, text |-> text]

\* `let lastError: unknown;`  -- declared, not yet assigned
Undefined == Err("undefined", "", 0, "")

\* No error thrown (the call is pending or has returned).
NoError == Err("none", "", 0, "")

\* Errors of the driver: the bounded wait timed out / the action threw.
WaitForError == Err("driver", "", 0, "Timeout")
FnError == Err("driver", "", 0, "ActionFailed")
ContentError == Err("driver", "", 0, "ContentFailed")
GotoError == Err("driver", "", 0, "GotoFailed")

\* Error thrown by the provider's suggestSelector.
ProviderError == Err("provider", "", 0, "AI is down")

\* `lastError instanceof Error ? lastError.message : String(lastError)`
LastErrorText(e) == IF e.kind = "undefined" THEN "undefined" ELSE e.text

\* `Selector "${selector}" timed out and AI healing is disabled.`
DisabledError(sel) == Err("disabled", sel, 0, "")

\* `Selector "${selector}" could not be healed after ${maxRetries}
\*  attempt(s). Last error: ${...}`
ExhaustedError(sel, bound, last) ==
  Err("exhausted", sel, bound, LastErrorText(last))

\* ---------------------------------------------------------------------
\* State
\* ---------------------------------------------------------------------

VARIABLES
  aiService,        \* providerName of this.aiService, or NoService
  a11yEnabled,      \* this.a11yEnabled
  maxRetries,       \* this.maxRetries
  healingEvents,    \* this.healingEvents
  a11yViolations,   \* this.a11yViolations (the triggering action of each)
  pc,               \* position of the action call in flight
  method,           \* the public method that was called
  selector,         \* healAndRetry: parameter selector
  action,           \* parameter action of healAndRetry and of afterAction
  attempt,          \* healAndRetry: loop counter
  currentSelector,  \* healAndRetry: local currentSelector
  html,             \* healAndRetry: local html
  suggested,        \* healAndRetry: local suggested
  lastError,        \* healAndRetry: local lastError
  thrown,           \* the error the action call rejected with
  io,               \* calls made to the driver and the provider by this call
  eventsAtCall,     \* healingEvents when the action call was issued
  calls,            \* number of action calls issued so far
  running,          \* the session whose fields the variables above hold
  parked,           \* the fields of the session that is not running
  selectorMap,      \* makemytrip.healer.ts: const selectorMap
  hasAnthropicKey,  \* createMMTHealerConfig: const hasAnthropicKey
  hasOpenAIKey,     \* createMMTHealerConfig: const hasOpenAIKey
  provider,         \* createAIHealingService: config.provider
  ppc,              \* position of the suggestSelector call in flight
  failedSelector,   \* suggestSelector / customHealFn: parameter
  htmlSnapshot,     \* suggestSelector / customHealFn: parameter
  handed,           \* the markup the provider received
  ruleResult,       \* customHealFn: const ruleResult
  answer,           \* what the suggestSelector call resolved with
  remote,           \* what the remote provider has seen of this call
  catalog,          \* makemytrip.selectors.ts: the object MMT
  given,            \* what the last construction was given: config.ai,
                    \* process.env, mcpConfig.useSnapshotsForHealing
  mcp,              \* the fields of the MCPConnection object
  mcpCalls,         \* the calls made on the MCPConnection, by call number
  mcpSeen           \* what the MCP packages have seen of these calls

vars ==
  <<aiService, a11yEnabled, maxRetries, healingEvents, a11yViolations, pc,
    method, selector, action, attempt, currentSelector, html, suggested,
    lastError, thrown, io, eventsAtCall, calls, running, parked,
    selectorMap, hasAnthropicKey, hasOpenAIKey, provider, ppc,
    failedSelector, htmlSnapshot, handed, ruleResult, answer, remote,
    catalog, given, mcp, mcpCalls, mcpSeen>>

config == <<aiService, a11yEnabled, maxRetries>>

locals == <<attempt, currentSelector, html, suggested, lastError>>

\* The second session of the test.
sessions == <<running, parked>>

\* The healing provider and the suggestSelector call made on it.
healer ==
  <<selectorMap, hasAnthropicKey, hasOpenAIKey, provider, ppc,
    failedSelector, htmlSnapshot, handed, ruleResult, answer, remote,
    catalog, given>>

\* The MCP connection of a ResilientMCPPage and the calls made on it.
connection == <<mcp, mcpCalls, mcpSeen>>

\* What the driver and the provider have seen of the call in flight.
NoIo ==
  [ resolutions   |-> 0,   \* locator.waitFor calls
    completed     |-> 0,   \* fn calls that returned
    snapshots     |-> 0,   \* page.content calls
    providerCalls |-> 0,   \* suggestSelector calls, those that threw included
    providerThrew |-> 0,   \* suggestSelector calls that threw
    returned      |-> "",  \* selector the last suggestSelector call returned
    resolvedOn    |-> "",  \* selector the attempt under way has resolved
    completedOn   |-> "",  \* selector of the last fn call that returned
    failedOn      |-> "",  \* selector of the last attempt that failed
    failure       |-> "",  \* message of the error of that attempt
    seed          |-> "",  \* failedSelector of the last suggestSelector call
    seedHtml      |-> "",  \* htmlSnapshot of the last suggestSelector call
    pulled        |-> "" ] \* markup the last page.content call returned

\* A suggestion that may be absent (null): ruleBased returns string | null.
Absent == [some |-> FALSE, sel |-> <<>>]
Some(sel) == [some |-> TRUE, sel |-> sel]

\* `new Map<string, readonly string[]>()`
EmptyMap == [s \in {} |-> <<>>]

\* No second session has been constructed.
NoSession == [alive |-> FALSE]

\* fetch has not settled.
NoResponse == [kind |-> "pending", segments |-> <<>>]

\* What the remote provider (callAnthropic, callOpenAI) has seen of the
\* suggestSelector call in flight.
NoRemote ==
  [ calls          |-> 0,       \* suggestSelector calls on the remote service
    provider       |-> "",      \* providerName of that service
    failedSelector |-> <<>>,    \* failedSelector of the last one
    html           |-> <<>>,    \* markup in the prompt of the last one
    requests       |-> 0,       \* fetch calls
    key            |-> "",      \* API key in the header of the request
    response       |-> NoResponse, \* what fetch settled with
    answered       |-> Absent,  \* selector it resolved with
    threw          |-> FALSE ]  \* it rejected

\* An object without properties.
NoCatalog == [kind |-> "object", values |-> <<>>]

\* The value undefined: a property that is not supplied, an environment
\* variable that is not set.
NotSet == "undefined"

\* `ai: false`
NoAiConfig == [provider |-> "false", apiKey |-> NotSet, customHealFn |-> FALSE]

\* Neither API key variable is set.
NoEnv == [ANTHROPIC_API_KEY |-> NotSet, OPENAI_API_KEY |-> NotSet]

\* The key the configurations of the tests supply (`apiKey: 'test-key'`).
TestKey == "test-key"

\* `a ?? b`
Coalesce(a, b) == IF a = NotSet THEN b ELSE a

\* `process.env[ENV_KEY_MAP[provider] ?? '']`
EnvKey(name, environment) ==
  CASE name = "anthropic" -> environment.ANTHROPIC_API_KEY
    [] name = "openai"    -> environment.OPENAI_API_KEY
    [] OTHER              -> NotSet

\* `config.apiKey ?? process.env[ENV_KEY_MAP[provider] ?? ''] ?? ''`
ResolvedKey(ai, environment) ==
  Coalesce(Coalesce(ai.apiKey, EnvKey(ai.provider, environment)), "")

\* The missing-key test left out: a service is made with whatever key was
\* resolved.
CreatesUnchecked(ai, environment) ==
  [ threw        |-> FALSE,
    error        |-> "",
    providerName |-> ai.provider,
    apiKey       |-> ResolvedKey(ai, environment) ]

\* createAIHealingService(config): the service it returns (its
\* providerName and the key its closure holds) or the error it throws.
CreateAIHealingService(ai, environment) ==
  IF ai.provider = "custom"
    THEN IF ~ai.customHealFn
           THEN [ threw |-> TRUE, error |-> "customHealFn is required",
                  providerName |-> "", apiKey |-> "" ]
           ELSE [ threw |-> FALSE, error |-> "",
                  providerName |-> "custom", apiKey |-> "" ]
    ELSE IF ResolvedKey(ai, environment) = ""
           THEN [ threw |-> TRUE, error |-> "No API key provided",
                  providerName |-> "", apiKey |-> "" ]
           ELSE [ threw |-> FALSE, error |-> "",
                  providerName |-> ai.provider,
                  apiKey |-> ResolvedKey(ai, environment) ]

\* The keys the environment can hold.
AnthropicEnvKey == "sk-ant-env"
OpenAIEnvKey == "sk-oai-env"

\* process.env with the API key variables set or not.
EnvWith(anthropic, openai) ==
  [ ANTHROPIC_API_KEY |-> IF anthropic THEN AnthropicEnvKey ELSE NotSet,
    OPENAI_API_KEY    |-> IF openai THEN OpenAIEnvKey ELSE NotSet ]

\* A configuration createAIHealingService makes the named service from:
\* the custom function or the key of the tests.
ConfigOf(name) ==
  IF name = NoService
    THEN NoAiConfig
    ELSE [ provider     |-> name,
           apiKey       |-> IF name = "custom" THEN NotSet ELSE TestKey,
           customHealFn |-> name = "custom" ]

\* new MCPConnection(config): the fields after construction.  A client,
\* a server and a transport are named by the number of the connect call
\* that created them; 0 is null.
NewConnection ==
  [client |-> 0, server |-> 0, transport |-> 0, connected |-> FALSE]

\* What @playwright/mcp and the MCP client have seen: servers created,
\* tool and list calls received by a client, clients and servers closed.
NothingSeen == [created |-> 0, toolCalls |-> 0, closed |-> 0]

\* The last construction was given the configuration of the named service,
\* an environment without API keys and no MCP snapshots.
GivenFor(name) ==
  [ai |-> ConfigOf(name), env |-> NoEnv, useSnapshotsForHealing |-> FALSE]

\* An MCP connection nobody calls.
Plain ==
  /\ mcp = NewConnection
  /\ mcpCalls = <<>>
  /\ mcpSeen = NothingSeen

\* No suggestSelector call has been made.
NoHealCall ==
  /\ ppc = "idle"
  /\ failedSelector = <<>>
  /\ htmlSnapshot = <<>>
  /\ handed = <<>>
  /\ ruleResult = Absent
  /\ answer = Absent
  /\ remote = NoRemote

\* One session, whose provider is the environment.
OneSession ==
  /\ running = 1
  /\ parked = NoSession
  /\ selectorMap = EmptyMap
  /\ hasAnthropicKey = FALSE
  /\ hasOpenAIKey = FALSE
  /\ provider = NoService
  /\ NoHealCall
  /\ catalog = NoCatalog
  /\ Plain

\* new ResilientPage(page, config)
Init ==
  /\ OneSession
  /\ aiService \in {NoService} \cup ProviderNames
  /\ given = GivenFor(aiService)
  /\ a11yEnabled \in BOOLEAN
  /\ maxRetries \in {DefaultMaxHealingRetries} \cup (0 .. MaxRetriesConfig)
  /\ healingEvents = <<>>
  /\ a11yViolations = <<>>
  /\ pc = "idle"
  /\ method = ""
  /\ selector = ""
  /\ action = ""
  /\ attempt = 0
  /\ currentSelector = ""
  /\ html = ""
  /\ suggested = ""
  /\ lastError = Undefined
  /\ thrown = NoError
  /\ io = NoIo
  /\ eventsAtCall = <<>>
  /\ calls = 0

\* No action call is in flight.
Settled == pc \in {"idle", "returned", "threw"}

\* ---------------------------------------------------------------------
\* healAndRetry
\* ---------------------------------------------------------------------

\* The loop test off by one: `attempt <= this.maxRetries`.
LoopContinuesOffByOne(att) == att <= maxRetries

\* `for (...; attempt < this.maxRetries; ...)`
LoopContinues(att) == att < maxRetries

\* The null test of step 2 left out.
HealingDisabledUnchecked == FALSE

\* `if (!this.aiService)`
HealingDisabled == aiService = NoService

\* The provider asked with the original selector on every attempt.
SeedIsOriginal == selector

\* First argument of `this.aiService.suggestSelector(currentSelector, html)`
Seed == currentSelector

\* The event built with the retry seed as its original selector.
NewEventFromSeed ==
  [ originalSelector |-> currentSelector,
    healedSelector   |-> suggested,
    action           |-> action,
    aiProvider       |-> aiService ]

\* The event built with the retry seed as its healed selector.
NewEventHealedIsSeed ==
  [ originalSelector |-> selector,
    healedSelector   |-> currentSelector,
    action           |-> action,
    aiProvider       |-> aiService ]

\* The event healAndRetry pushes on success (timestamp left out).
NewEvent ==
  [ originalSelector |-> selector,
    healedSelector   |-> suggested,
    action           |-> action,
    aiProvider       |-> aiService ]

\* `return` of healAndRetry, back in the public method: click and fill go
\* on to afterAction, the read methods return their result.
ReturnFromHeal == IF CallsAfterAction(method) THEN "afterAction" ELSE "returned"

\* A public self-healing method is called: healAndRetry(selector, action, fn)
\* starts and reaches its first await, locator.waitFor.
StartCallOf(methods, selectors) ==
  /\ Settled
  /\ calls < MaxCalls
  /\ \E m \in methods, sel \in selectors :
       /\ method' = m
       /\ selector' = sel
       /\ action' = ActionLiteral(m)
  /\ pc' = "waitFor"
  /\ attempt' = 0
  /\ currentSelector' = ""
  /\ html' = ""
  /\ suggested' = ""
  /\ lastError' = Undefined
  /\ thrown' = NoError
  /\ io' = NoIo
  /\ eventsAtCall' = healingEvents
  /\ calls' = calls + 1
  /\ UNCHANGED <<config, sessions, healer, connection, healingEvents, a11yViolations>>

\* The test calls click or textContent on one of its selectors.
StartCall == StartCallOf(CalledMethods, Selectors)

\* The code after `catch {}` of the first attempt: step 2 and the entry
\* of the healing loop.  err is the error the attempt failed with, which
\* the catch clause does not bind.
DirectFailed(err) ==
  /\ io' = [io EXCEPT !.resolutions = IF pc = "waitFor" THEN @ + 1 ELSE @,
                      !.resolvedOn = "",
                      !.failedOn = selector,
                      !.failure = err.text]
  /\ IF HealingDisabled
       THEN /\ pc' = "threw"
            /\ thrown' = DisabledError(selector)
            /\ UNCHANGED locals
       ELSE /\ currentSelector' = selector
            /\ attempt' = 0
            /\ UNCHANGED <<html, suggested, lastError>>
            /\ IF LoopContinues(0)
                 THEN pc' = "content" /\ UNCHANGED thrown
                 ELSE /\ pc' = "threw"
                      /\ thrown' = ExhaustedError(selector, maxRetries, lastError)
  /\ UNCHANGED <<config, sessions, healer, connection,
                 healingEvents, a11yViolations, method, selector,
                 action, eventsAtCall, calls>>

\* `await locator.waitFor(...)` resolves: the original selector is attached.
DirectWaitForOk ==
  /\ pc = "waitFor"
  /\ pc' = "fn"
  /\ io' = [io EXCEPT !.resolutions = @ + 1, !.resolvedOn = selector]
  /\ UNCHANGED <<config, sessions, healer, connection,
                 healingEvents, a11yViolations, method, selector,
                 action, locals, thrown, eventsAtCall, calls>>

\* `await locator.waitFor(...)` times out.
DirectWaitForTimeout ==
  /\ pc = "waitFor"
  /\ DirectFailed(WaitForError)

\* The first attempt without its `return`: control falls through to step 2.
DirectFnOkFallsThrough ==
  /\ pc = "fn"
  /\ io' = [io EXCEPT !.completed = @ + 1, !.completedOn = selector]
  /\ IF aiService = NoService
       THEN /\ pc' = "threw"
            /\ thrown' = DisabledError(selector)
            /\ UNCHANGED locals
       ELSE /\ currentSelector' = selector
            /\ UNCHANGED <<attempt, html, suggested, lastError>>
            /\ IF attempt < maxRetries
                 THEN pc' = "content" /\ UNCHANGED thrown
                 ELSE /\ pc' = "threw"
                      /\ thrown' = ExhaustedError(selector, maxRetries, lastError)
  /\ UNCHANGED <<config, sessions, healer, connection,
                 healingEvents, a11yViolations, method, selector,
                 action, eventsAtCall, calls>>

\* `await fn(locator); return;`
DirectFnOk ==
  /\ pc = "fn"
  /\ pc' = ReturnFromHeal
  /\ io' = [io EXCEPT !.completed = @ + 1,
                      !.completedOn = selector]
  /\ UNCHANGED <<config, sessions, healer, connection,
                 healingEvents, a11yViolations, method, selector,
                 action, locals, thrown, eventsAtCall, calls>>

\* `await fn(locator)` throws.
DirectFnThrows ==
  /\ pc = "fn"
  /\ DirectFailed(FnError)

\* The snapshot pulled once per action call and kept for its later
\* attempts: `html ??= await this.page.content()`.
ContentOkOncePerCall(markups) ==
  /\ pc = "content"
  /\ IF io.snapshots = 0
       THEN \E m \in markups :
              /\ html' = m
              /\ io' = [io EXCEPT !.snapshots = @ + 1, !.pulled = m]
       ELSE /\ html' = io.pulled
            /\ io' = io
  /\ pc' = "suggestSelector"
  /\ UNCHANGED <<config, sessions, healer, connection,
                 healingEvents, a11yViolations, method, selector,
                 action, attempt, currentSelector, suggested, lastError,
                 thrown, eventsAtCall, calls>>

\* `const html = await this.page.content();`
ContentOkOf(markups) ==
  /\ pc = "content"
  /\ \E m \in markups :
       /\ html' = m
       /\ io' = [io EXCEPT !.snapshots = @ + 1, !.pulled = m]
  /\ pc' = "suggestSelector"
  /\ UNCHANGED <<config, sessions, healer, connection,
                 healingEvents, a11yViolations, method, selector,
                 action, attempt, currentSelector, suggested, lastError,
                 thrown, eventsAtCall, calls>>

\* page.content() returns the markup of the page.
ContentOk == ContentOkOf(Markups)

\* page.content() throws: nothing in healAndRetry catches it.
ContentThrows ==
  /\ pc = "content"
  /\ pc' = "threw"
  /\ thrown' = ContentError
  /\ io' = [io EXCEPT !.snapshots = @ + 1]
  /\ UNCHANGED <<config, sessions, healer, connection,
                 healingEvents, a11yViolations, method, selector,
                 action, locals, eventsAtCall, calls>>

\* `const suggested = await this.aiService.suggestSelector(currentSelector, html);`
SuggestOk ==
  /\ pc = "suggestSelector"
  /\ \E s \in Selectors :
       /\ suggested' = s
       /\ io' = [io EXCEPT !.providerCalls = @ + 1, !.seed = Seed,
                           !.seedHtml = html, !.returned = s]
  /\ pc' = "healedWaitFor"
  /\ UNCHANGED <<config, sessions, healer, connection,
                 healingEvents, a11yViolations, method, selector,
                 action, attempt, currentSelector, html, lastError, thrown,
                 eventsAtCall, calls>>

\* suggestSelector awaited inside the try block: its error is caught and
\* uses up one retry.
SuggestThrowsCaught ==
  /\ pc = "suggestSelector"
  /\ lastError' = ProviderError
  /\ attempt' = attempt + 1
  /\ io' = [io EXCEPT !.providerCalls = @ + 1, !.providerThrew = @ + 1,
                      !.seed = currentSelector, !.seedHtml = html]
  /\ IF attempt + 1 < maxRetries
       THEN pc' = "content" /\ UNCHANGED thrown
       ELSE /\ pc' = "threw"
            /\ thrown' = ExhaustedError(selector, maxRetries, ProviderError)
  /\ UNCHANGED <<config, sessions, healer, connection,
                 healingEvents, a11yViolations, method, selector,
                 action, currentSelector, html, suggested, eventsAtCall, calls>>

\* suggestSelector throws: the await is outside the try block.
SuggestThrows ==
  /\ pc = "suggestSelector"
  /\ pc' = "threw"
  /\ thrown' = ProviderError
  /\ io' = [io EXCEPT !.providerCalls = @ + 1, !.providerThrew = @ + 1,
                      !.seed = Seed, !.seedHtml = html]
  /\ UNCHANGED <<config, sessions, healer, connection,
                 healingEvents, a11yViolations, method, selector,
                 action, locals, eventsAtCall, calls>>

\* The catch clause and the loop test without `attempt++`.
HealFailedSameAttempt(err) ==
  /\ lastError' = err
  /\ currentSelector' = suggested
  /\ attempt' = attempt
  /\ html' = ""
  /\ suggested' = ""
  /\ io' = [io EXCEPT !.resolutions = IF pc = "healedWaitFor" THEN @ + 1 ELSE @,
                      !.resolvedOn = "",
                      !.failedOn = suggested,
                      !.failure = err.text]
  /\ IF LoopContinues(attempt)
       THEN pc' = "content" /\ UNCHANGED thrown
       ELSE /\ pc' = "threw"
            /\ thrown' = ExhaustedError(selector, maxRetries, err)

\* `catch (err) { lastError = err; currentSelector = suggested; }`, then
\* `attempt++` and the loop test; after the loop, the final throw.  The
\* constants html and suggested of the loop body go out of scope.
HealFailed(err) ==
  /\ lastError' = err
  /\ currentSelector' = suggested
  /\ attempt' = attempt + 1
  /\ html' = ""
  /\ suggested' = ""
  /\ io' = [io EXCEPT !.resolutions = IF pc = "healedWaitFor" THEN @ + 1 ELSE @,
                      !.resolvedOn = "",
                      !.failedOn = suggested,
                      !.failure = err.text]
  /\ IF LoopContinues(attempt + 1)
       THEN pc' = "content" /\ UNCHANGED thrown
       ELSE /\ pc' = "threw"
            /\ thrown' = ExhaustedError(selector, maxRetries, err)

\* The event pushed as soon as the suggestion resolves, before fn runs.
HealedWaitForOkRecords ==
  /\ pc = "healedWaitFor"
  /\ pc' = "healedFn"
  /\ healingEvents' = Append(healingEvents, NewEvent)
  /\ io' = [io EXCEPT !.resolutions = @ + 1, !.resolvedOn = suggested]
  /\ UNCHANGED <<config, sessions, healer, connection,
                 a11yViolations, method, selector, action, locals,
                 thrown, eventsAtCall, calls>>

\* `await healedLocator.waitFor(...)` resolves.
HealedWaitForOk ==
  /\ pc = "healedWaitFor"
  /\ pc' = "healedFn"
  /\ io' = [io EXCEPT !.resolutions = @ + 1, !.resolvedOn = suggested]
  /\ UNCHANGED <<config, sessions, healer, connection,
                 healingEvents, a11yViolations, method, selector,
                 action, locals, thrown, eventsAtCall, calls>>

\* The time-out of the healed locator's wait ignored: the action is run
\* on a locator that has not resolved.
HealedWaitForTimeoutIgnored ==
  /\ pc = "healedWaitFor"
  /\ pc' = "healedFn"
  /\ io' = [io EXCEPT !.resolutions = @ + 1, !.resolvedOn = "",
                      !.failedOn = suggested, !.failure = WaitForError.text]
  /\ UNCHANGED <<config, sessions, healer, connection,
                 healingEvents, a11yViolations, method, selector,
                 action, locals, thrown, eventsAtCall, calls>>

\* `await healedLocator.waitFor(...)` times out.
HealedWaitForTimeout ==
  /\ pc = "healedWaitFor"
  /\ HealFailed(WaitForError)
  /\ UNCHANGED <<config, sessions, healer, connection,
                 healingEvents, a11yViolations, method, selector,
                 action, eventsAtCall, calls>>

\* `this.healingEvents.unshift({...})` in place of push: the newest event
\* goes to the front of the log.
HealedFnOkPrepends ==
  /\ pc = "healedFn"
  /\ healingEvents' = <<NewEvent>> \o healingEvents
  /\ pc' = ReturnFromHeal
  /\ io' = [io EXCEPT !.completed = @ + 1,
                      !.completedOn = suggested]
  /\ UNCHANGED <<config, sessions, healer, connection,
                 a11yViolations, method, selector, action, locals,
                 thrown, eventsAtCall, calls>>

\* `await fn(healedLocator); this.healingEvents.push({...}); return;`
HealedFnOk ==
  /\ pc = "healedFn"
  /\ healingEvents' = Append(healingEvents, NewEvent)
  /\ pc' = ReturnFromHeal
  /\ io' = [io EXCEPT !.completed = @ + 1,
                      !.completedOn = suggested]
  /\ UNCHANGED <<config, sessions, healer, connection,
                 a11yViolations, method, selector, action, locals,
                 thrown, eventsAtCall, calls>>

\* The event pushed before `await fn(healedLocator)`: a throwing action
\* leaves it in the log.
HealedFnThrowsAfterPush ==
  /\ pc = "healedFn"
  /\ healingEvents' = Append(healingEvents, NewEvent)
  /\ HealFailed(FnError)
  /\ UNCHANGED <<config, sessions, healer, connection,
                 a11yViolations, method, selector, action,
                 eventsAtCall, calls>>

\* `await fn(healedLocator)` throws.
HealedFnThrows ==
  /\ pc = "healedFn"
  /\ HealFailed(FnError)
  /\ UNCHANGED <<config, sessions, healer, connection,
                 healingEvents, a11yViolations, method, selector,
                 action, eventsAtCall, calls>>

\* ---------------------------------------------------------------------
\* afterAction and goto
\* ---------------------------------------------------------------------

\* What runAccessibilityScan(page, action) can return: the violations it
\* found, each tagged with the triggering action.
ScanResults(act) == {<<>>, <<[triggeringAction |-> act]>>}

\* `if (!this.a11yEnabled) return;`
AfterActionDisabled ==
  /\ pc = "afterAction"
  /\ ~a11yEnabled
  /\ pc' = "returned"
  /\ UNCHANGED <<config, sessions, healer, connection,
                 healingEvents, a11yViolations, method, selector,
                 action, locals, thrown, io, eventsAtCall, calls>>

\* `this.a11yViolations.push(...violations);`
AfterActionScan ==
  /\ pc = "afterAction"
  /\ a11yEnabled
  /\ \E violations \in ScanResults(action) :
       a11yViolations' = a11yViolations \o violations
  /\ pc' = "returned"
  /\ UNCHANGED <<config, sessions, healer, connection,
                 healingEvents, method, selector, action, locals,
                 thrown, io, eventsAtCall, calls>>

\* runAccessibilityScan throws: `catch {}` swallows the error.
AfterActionScanThrows ==
  /\ pc = "afterAction"
  /\ a11yEnabled
  /\ pc' = "returned"
  /\ UNCHANGED <<config, sessions, healer, connection,
                 healingEvents, a11yViolations, method, selector,
                 action, locals, thrown, io, eventsAtCall, calls>>

\* goto(url) is called and reaches `await this.page.goto(url, options)`.
StartGoto ==
  /\ Settled
  /\ calls < MaxCalls
  /\ method' = "goto"
  /\ selector' = ""
  /\ action' = "goto"
  /\ pc' = "goto"
  /\ attempt' = 0
  /\ currentSelector' = ""
  /\ html' = ""
  /\ suggested' = ""
  /\ lastError' = Undefined
  /\ thrown' = NoError
  /\ io' = NoIo
  /\ eventsAtCall' = healingEvents
  /\ calls' = calls + 1
  /\ UNCHANGED <<config, sessions, healer, connection, healingEvents, a11yViolations>>

\* page.goto returns: `await this.afterAction('goto')` is next.
GotoOk ==
  /\ pc = "goto"
  /\ pc' = "afterAction"
  /\ UNCHANGED <<config, sessions, healer, connection,
                 healingEvents, a11yViolations, method, selector,
                 action, locals, thrown, io, eventsAtCall, calls>>

\* page.goto throws.
GotoThrows ==
  /\ pc = "goto"
  /\ pc' = "threw"
  /\ thrown' = GotoError
  /\ UNCHANGED <<config, sessions, healer, connection,
                 healingEvents, a11yViolations, method, selector,
                 action, locals, io, eventsAtCall, calls>>

\* ---------------------------------------------------------------------
\* Specification
\* ---------------------------------------------------------------------

Next ==
  \/ StartCall
  \/ DirectWaitForOk
  \/ DirectWaitForTimeout
  \/ DirectFnOk
  \/ DirectFnThrows
  \/ ContentOk
  \/ ContentThrows
  \/ SuggestOk
  \/ SuggestThrows
  \/ HealedWaitForOk
  \/ HealedWaitForTimeout
  \/ HealedFnOk
  \/ HealedFnThrows
  \/ AfterActionDisabled
  \/ AfterActionScan
  \/ AfterActionScanThrows
  \/ StartGoto
  \/ GotoOk
  \/ GotoThrows

Spec == Init /\ [][Next]_vars

\* The values the variables take.
TypeOK ==
  /\ aiService \in {NoService} \cup ProviderNames
  /\ a11yEnabled \in BOOLEAN
  /\ maxRetries \in {DefaultMaxHealingRetries} \cup (0 .. MaxRetriesConfig)
  /\ pc \in {"idle", "waitFor", "fn", "content", "suggestSelector",
             "healedWaitFor", "healedFn", "afterAction", "goto",
             "returned", "threw"}
  /\ method \in HealingMethods \cup {"", "goto"}
  /\ attempt \in 0 .. maxRetries
  /\ calls \in 0 .. MaxCalls
  /\ Len(healingEvents) <= calls

\* ---------------------------------------------------------------------
\* Properties of the healing orchestrator
\* ---------------------------------------------------------------------

\* The action call in flight, or the last one, went through healAndRetry.
HealingCall == method \in HealingMethods

\* The events the current action call has appended to the log.
Appended == SubSeq(healingEvents, Len(eventsAtCall) + 1, Len(healingEvents))

\* The log is the log at call time followed by Appended.
LogExtended ==
  /\ Len(healingEvents) >= Len(eventsAtCall)
  /\ SubSeq(healingEvents, 1, Len(eventsAtCall)) = eventsAtCall

\* healAndRetry has returned (the call is in afterAction or has returned).
Returned == HealingCall /\ pc \in {"afterAction", "returned"}

\* The call has ended Failed with the exhaustion error.
Exhausted == pc = "threw" /\ thrown.kind = "exhausted"

\* The call is inside the healing loop.
InLoop == pc \in {"content", "suggestSelector", "healedWaitFor", "healedFn"}

\* C1: a Healing Event is in the log only once the bounded wait on the
\* suggested selector has succeeded and the wrapped action has completed on
\* that selector: while an attempt is under way, and after a call that
\* failed, the call has appended nothing; once it has appended an event,
\* the event's healedSelector is the selector the driver resolved and
\* completed the action on.
C1_EventOnlyAfterVerifiedSuccess ==
  /\ LogExtended
  /\ Appended # <<>> =>
       /\ Returned
       /\ Len(Appended) = 1
       /\ io.completed = 1
       /\ io.providerCalls >= 1
       /\ io.resolvedOn = Appended[1].healedSelector
       /\ io.completedOn = Appended[1].healedSelector
       /\ io.returned = Appended[1].healedSelector

\* C1 witness: an event was appended after an earlier suggestion had failed.
C1_Witness ==
  /\ Returned
  /\ Len(Appended) = 1
  /\ attempt >= 1
  /\ io.failedOn # Appended[1].healedSelector

\* C2: with maxHealingRetries = N one action call makes at most N provider
\* calls (those that throw included) and at most 1 + N resolution attempts;
\* the loop body is only entered with attempt < N, and once the N-th
\* suggestion has failed the call has ended Failed by exhaustion.
C2_RetryBound ==
  HealingCall =>
    /\ io.providerCalls <= maxRetries
    /\ io.snapshots <= maxRetries
    /\ io.resolutions <= 1 + maxRetries
    /\ attempt <= maxRetries
    /\ InLoop => attempt < maxRetries
    /\ (aiService # NoService /\ io.failedOn # "" /\ attempt = maxRetries)
         => Exhausted

\* C2 witness: both suggestions of a call with maxHealingRetries = 2 failed.
C2_Witness ==
  /\ Exhausted
  /\ maxRetries = 2
  /\ io.providerCalls = 2
  /\ io.resolutions = 3

\* C3: the originalSelector of the event an action call appends is the
\* selector passed to that call, and the events of earlier calls are kept
\* as they were.
C3_OriginalSelectorIsCallArgument ==
  /\ LogExtended
  /\ \A i \in 1 .. Len(Appended) : Appended[i].originalSelector = selector

\* C3 witness: a call healed on a later attempt, whose retry seed was an
\* intermediate suggestion different from the selector of the call.
C3_Witness ==
  /\ Returned
  /\ Len(Appended) = 1
  /\ attempt >= 1
  /\ currentSelector # selector

\* C4: the provider call of Healing(0) is seeded with the original
\* selector, that of Healing(k), k > 0, with the suggestion that failed in
\* Healing(k-1), that is with the selector of the last failed attempt.
C4_SeedIsLastFailedCandidate ==
  (pc \in {"healedWaitFor", "healedFn"} \/ io.providerThrew > 0) =>
    /\ io.seed = io.failedOn
    /\ attempt = 0 => io.seed = selector

\* C4 witness: a later attempt whose seed is the previous suggestion and
\* differs from the original selector.
C4_Witness ==
  /\ pc = "healedWaitFor"
  /\ attempt >= 1
  /\ io.seed # selector
  /\ io.seed = io.failedOn

\* C5: a call whose original selector resolves and whose action completes
\* on the first attempt leaves the log as it was, pulls no snapshot and
\* makes no provider call.
C5_DirectSuccessIsSilent ==
  (HealingCall /\ io.failedOn = "" /\ io.completed = 1) =>
    /\ Returned
    /\ healingEvents = eventsAtCall
    /\ io.snapshots = 0
    /\ io.providerCalls = 0
    /\ io.resolutions = 1
    /\ io.completedOn = selector

\* C5 witness: a direct success on a session with a provider and with an
\* event of an earlier call in the log.
C5_Witness ==
  /\ pc = "returned"
  /\ HealingCall
  /\ io.failedOn = ""
  /\ io.completed = 1
  /\ aiService # NoService
  /\ eventsAtCall # <<>>

\* C6: a call that ends in healing exhaustion leaves the log exactly as it
\* was when the call was issued.
C6_ExhaustionLeavesLog ==
  Exhausted => healingEvents = eventsAtCall

\* C6 witness: maxHealingRetries = 1, the one suggestion failed, and the log
\* holds an event of an earlier call.
C6_Witness ==
  /\ Exhausted
  /\ maxRetries = 1
  /\ io.providerCalls = 1
  /\ eventsAtCall # <<>>

\* C7: the exhaustion error carries the original selector, the retry bound
\* and the message of the failure of the last attempt made, for every
\* configured value of maxHealingRetries.
C7_ExhaustedErrorDiagnoses ==
  Exhausted =>
    /\ thrown.selector = selector
    /\ thrown.bound = maxRetries
    /\ thrown.text = io.failure

\* C8: when suggestSelector throws, the action call rejects with that same
\* error at once: no snapshot pull, provider call or resolution attempt
\* follows, and no event is appended.
C8_ProviderErrorPropagates ==
  io.providerThrew > 0 =>
    /\ pc = "threw"
    /\ thrown = ProviderError
    /\ healingEvents = eventsAtCall
    /\ io.providerThrew = 1
    /\ io.providerCalls = attempt + 1
    /\ io.snapshots = attempt + 1
    /\ io.resolutions = attempt + 1

\* C8 witness: the provider threw while retries remained.
C8_Witness ==
  /\ io.providerThrew = 1
  /\ pc = "threw"
  /\ attempt + 1 < maxRetries

\* C9: without a provider, a failed first attempt ends the call with the
\* "healing disabled" error naming the selector; no snapshot is pulled, no
\* further resolution is attempted and the log is unchanged.
C9_DisabledFailsFast ==
  (HealingCall /\ aiService = NoService /\ io.failedOn # "") =>
    /\ pc = "threw"
    /\ thrown = DisabledError(selector)
    /\ io.snapshots = 0
    /\ io.providerCalls = 0
    /\ io.resolutions = 1
    /\ healingEvents = eventsAtCall

\* C9 witness: the first attempt failed on a session without provider.
C9_Witness ==
  /\ aiService = NoService
  /\ pc = "threw"
  /\ thrown.kind = "disabled"
  /\ thrown.selector = selector
  /\ maxRetries >= 1

\* C10: a call healed through healing appends exactly one event: its
\* healedSelector is the last suggestion the provider returned, on which
\* the action completed, its action is the name of the invoked method and
\* its provider is the providerName of the session's service.
C10_HealedAppendsOneEvent ==
  (Returned /\ io.providerCalls > 0) =>
    /\ healingEvents =
         Append(eventsAtCall,
                [ originalSelector |-> selector,
                  healedSelector   |-> io.returned,
                  action           |-> method,
                  aiProvider       |-> aiService ])
    /\ io.completedOn = io.returned
    /\ io.completed = 1

\* C10 witness: textContent healed on its second suggestion with the
\* openai service.
C10_Witness ==
  /\ pc = "returned"
  /\ method = "textContent"
  /\ aiService = "openai"
  /\ attempt = 1
  /\ io.providerCalls = 2
  /\ io.returned # io.failedOn
  /\ Len(healingEvents) = Len(eventsAtCall) + 1

\* ---------------------------------------------------------------------
\* Properties of the event log
\* ---------------------------------------------------------------------

\* C11: the event log is append-only and ordered.  Every step of the
\* session leaves the events already in the log where they are, and the
\* only change it makes to the log is one event added at the end, for the
\* action call in flight (its selector, its method).  Action calls being
\* issued one after the other, the events are in the order of their calls.
C11_LogAppendOnly ==
  [][ \/ healingEvents' = healingEvents
      \/ /\ ~Settled
         /\ calls' = calls
         /\ Len(healingEvents') = Len(healingEvents) + 1
         /\ SubSeq(healingEvents', 1, Len(healingEvents)) = healingEvents
         /\ healingEvents'[Len(healingEvents')].originalSelector = selector
         /\ healingEvents'[Len(healingEvents')].action = method ]_vars

\* C11 witness: two healed calls of different methods have returned; the
\* log holds the event of the first call, then the event of the second.
C11_Witness ==
  /\ pc = "returned"
  /\ calls = 2
  /\ Len(healingEvents) = 2
  /\ Len(eventsAtCall) = 1
  /\ healingEvents[1] = eventsAtCall[1]
  /\ healingEvents[1].action # method
  /\ healingEvents[2].action = method

\* ---------------------------------------------------------------------
\* Entry of the healing loop
\* ---------------------------------------------------------------------

\* The first attempt of the call failed on a session with a provider.
DirectFailedWithProvider ==
  HealingCall /\ aiService # NoService /\ io.failedOn # ""

\* C30: whenever the first attempt fails and a provider is configured, the
\* call enters Healing(0): before it can end Failed, at least one markup
\* snapshot has been pulled and the provider has been asked at least once,
\* whatever the value of maxHealingRetries.
C30_HealingEntered ==
  (DirectFailedWithProvider /\ pc = "threw") =>
    /\ io.snapshots >= 1
    /\ io.providerCalls >= 1

\* ---------------------------------------------------------------------
\* Two sessions
\*
\* A test that holds two ResilientPage objects.  The variables of the
\* orchestrator hold the fields of the session that is running, parked
\* holds the fields of the other one.  The test may turn from one session
\* to the other between any two steps, also while an action call of the
\* session it leaves is waiting on the driver or on the provider.
\* ---------------------------------------------------------------------

SessionIds == {1, 2}

\* The fields of the running session and the frame of its action call.
SessionFields ==
  [ alive           |-> TRUE,
    aiService       |-> aiService,
    a11yEnabled     |-> a11yEnabled,
    maxRetries      |-> maxRetries,
    healingEvents   |-> healingEvents,
    a11yViolations  |-> a11yViolations,
    pc              |-> pc,
    method          |-> method,
    selector        |-> selector,
    action          |-> action,
    attempt         |-> attempt,
    currentSelector |-> currentSelector,
    html            |-> html,
    suggested       |-> suggested,
    lastError       |-> lastError,
    thrown          |-> thrown,
    io              |-> io,
    eventsAtCall    |-> eventsAtCall ]

\* new ResilientPage(page, config): the fields after construction.
NewSession(ai, a11y, retries) ==
  [ alive           |-> TRUE,
    aiService       |-> ai,
    a11yEnabled     |-> a11y,
    maxRetries      |-> retries,
    healingEvents   |-> <<>>,
    a11yViolations  |-> <<>>,
    pc              |-> "idle",
    method          |-> "",
    selector        |-> "",
    action          |-> "",
    attempt         |-> 0,
    currentSelector |-> "",
    html            |-> "",
    suggested       |-> "",
    lastError       |-> Undefined,
    thrown          |-> NoError,
    io              |-> NoIo,
    eventsAtCall    |-> <<>> ]

\* The running session is session f.
Running(f) ==
  /\ aiService = f.aiService
  /\ a11yEnabled = f.a11yEnabled
  /\ maxRetries = f.maxRetries
  /\ healingEvents = f.healingEvents
  /\ a11yViolations = f.a11yViolations
  /\ pc = f.pc
  /\ method = f.method
  /\ selector = f.selector
  /\ action = f.action
  /\ attempt = f.attempt
  /\ currentSelector = f.currentSelector
  /\ html = f.html
  /\ suggested = f.suggested
  /\ lastError = f.lastError
  /\ thrown = f.thrown
  /\ io = f.io
  /\ eventsAtCall = f.eventsAtCall

\* One array for the logs of all sessions (a static field): the session
\* that resumes finds what the other session wrote.
ResumedLogShared(own, theirs) == theirs

\* `readonly healingEvents: HealingEvent[] = []` is an instance field: the
\* session that resumes finds its own array.
ResumedLog(own, theirs) == own

\* The fields of session f become the fields of the running session.
Resume(f) ==
  /\ aiService' = f.aiService
  /\ a11yEnabled' = f.a11yEnabled
  /\ maxRetries' = f.maxRetries
  /\ healingEvents' = ResumedLog(f.healingEvents, healingEvents)
  /\ a11yViolations' = f.a11yViolations
  /\ pc' = f.pc
  /\ method' = f.method
  /\ selector' = f.selector
  /\ action' = f.action
  /\ attempt' = f.attempt
  /\ currentSelector' = f.currentSelector
  /\ html' = f.html
  /\ suggested' = f.suggested
  /\ lastError' = f.lastError
  /\ thrown' = f.thrown
  /\ io' = f.io
  /\ eventsAtCall' = f.eventsAtCall

\* The test turns to its other session.
Switch ==
  /\ parked # NoSession
  /\ running' = CHOOSE s \in SessionIds : s # running
  /\ parked' = SessionFields
  /\ Resume(parked)
  /\ UNCHANGED <<calls, healer, connection>>

\* Two sessions are constructed, each with a provider of its own; the
\* first one scans for accessibility, the second one does not.
InitTwo ==
  /\ running = 1
  /\ parked = NewSession("openai", FALSE, DefaultMaxHealingRetries)
  /\ Running(NewSession("custom", TRUE, DefaultMaxHealingRetries))
  /\ calls = 0
  /\ selectorMap = EmptyMap
  /\ hasAnthropicKey = FALSE
  /\ hasOpenAIKey = FALSE
  /\ provider = NoService
  /\ NoHealCall
  /\ catalog = NoCatalog
  /\ given = GivenFor("openai")
  /\ Plain

NextTwo ==
  \/ Next
  \/ Switch

SpecTwo == InitTwo /\ [][NextTwo]_vars

\* this.healingEvents of session s.
LogOf(s) == IF s = running THEN healingEvents ELSE parked.healingEvents

\* C12: session isolation.  With two sessions alive, every step leaves
\* the log of each session as it is, except that a step of an action call
\* of the running session may append the event of that call to the log
\* of the running session.
C12_SessionIsolation ==
  [][ \A s \in SessionIds :
        \/ LogOf(s)' = LogOf(s)
        \/ /\ s = running
           /\ running' = running
           /\ ~Settled
           /\ LogOf(s)' = Append(LogOf(s), NewEvent) ]_vars

\* C12 witness: each session has healed one call; the healed call of the
\* first session is still in its accessibility scan, the one of the second
\* session has returned, and each log holds the event of its own session.
C12_Witness ==
  /\ running = 1
  /\ pc = "afterAction"
  /\ Len(healingEvents) = 1
  /\ healingEvents[1].aiProvider = "custom"
  /\ parked.alive
  /\ parked.pc = "returned"
  /\ eventsAtCall = <<>>
  /\ Len(parked.healingEvents) = 1
  /\ parked.healingEvents[1].aiProvider = "openai"

\* ---------------------------------------------------------------------
\* Text
\*
\* Selectors and markup are strings: sequences of characters.
\* ---------------------------------------------------------------------

\* s.startsWith(prefix)
StartsWith(s, prefix) ==
  /\ Len(s) >= Len(prefix)
  /\ SubSeq(s, 1, Len(prefix)) = prefix

\* s.endsWith(suffix)
EndsWith(s, suffix) ==
  /\ Len(s) >= Len(suffix)
  /\ SubSeq(s, Len(s) - Len(suffix) + 1, Len(s)) = suffix

\* s.includes(part): a literal substring test.
Includes(s, part) ==
  \E i \in 1 .. (Len(s) - Len(part) + 1) :
    SubSeq(s, i, i + Len(part) - 1) = part

\* The separators of `split(/[.\s:[\]]/)`.
ClassSeparators == {".", " ", "\t", "\n", ":", "[", "]"}

\* `s.split('.')[0]`: s is cut at its first '.' only.
FirstTokenToDot(s) ==
  LET stops == {i \in 1 .. Len(s) : s[i] = "."}
  IN  IF stops = {}
        THEN s
        ELSE SubSeq(s, 1, (CHOOSE i \in stops : \A j \in stops : i <= j) - 1)

\* `s.split(/[.\s:[\]]/)[0]`: s up to its first separator.
FirstToken(s) ==
  LET stops == {i \in 1 .. Len(s) : s[i] \in ClassSeparators}
  IN  IF stops = {}
        THEN s
        ELSE SubSeq(s, 1, (CHOOSE i \in stops : \A j \in stops : i <= j) - 1)

\* `id="${id}"` and `id='${id}'`
IdAttribute(id, quote) == <<"i", "d", "=", quote>> \o id \o <<quote>>

\* The prefix `[data-cy=`
DataCyPrefix == <<"[", "d", "a", "t", "a", "-", "c", "y", "=">>

\* `[data-testid="${name}"]`
DataTestId(name) ==
  <<"[", "d", "a", "t", "a", "-", "t", "e", "s", "t", "i", "d", "=", "\"">>
    \o name \o <<"\"", "]">>

\* `[class*="${className}"]`
ClassContains(className) ==
  <<"[", "c", "l", "a", "s", "s", "*", "=", "\"">>
    \o className \o <<"\"", "]">>

\* ---------------------------------------------------------------------
\* Candidate index and rule-based healer (tests/e2e/makemytrip.healer.ts)
\* ---------------------------------------------------------------------

\* Longest candidate group of the catalogs that are explored.
MaxGroupLen == 3

\* The selectors that appear in candidate groups: two ID selectors, a
\* class selector with a descendant part, a data-cy attribute selector
\* and a tag selector.
SelA == <<"#", "a">>
SelB == <<"#", "b">>
SelK == <<".", "k", " ", "d">>
SelE == DataCyPrefix \o <<"\"", "e", "\"", "]">>
SelT == <<"t">>
GroupPool == {SelA, SelB, SelK, SelE, SelT}

\* Selectors of no group: ID-shaped, class-shaped, another shape.
SelU == <<"#", "u">>
SelV == <<".", "v", ":", "w">>
SelS == <<"s">>
FailedSelectors == GroupPool \cup {SelU, SelV, SelS}

\* The candidate groups: arrays of distinct selectors.
Groups ==
  {g \in UNION {[1 .. n -> GroupPool] : n \in 2 .. MaxGroupLen} :
     \A i, j \in DOMAIN g : g[i] = g[j] => i = j}

\* Values of the catalog object MMT: arrays of selectors, nested objects,
\* strings (BASE_URL) and functions (datePicker.day).
ArrayValue(items) == [kind |-> "array", items |-> items]
ObjectValue(values) == [kind |-> "object", values |-> values]
StringValue == [kind |-> "string"]
FunctionValue == [kind |-> "function"]

\* A catalog like MMT with one candidate group.
Catalog(group) ==
  ObjectValue(<<StringValue,
                ObjectValue(<<ArrayValue(group), FunctionValue>>)>>)

\* The entry written only when the key is new: the first group wins.
MapSetIfNew(map, key, value) ==
  [k \in DOMAIN map \cup {key} |-> IF k \in DOMAIN map THEN map[k] ELSE value]

\* map.set(key, value)
MapSet(map, key, value) ==
  [k \in DOMAIN map \cup {key} |-> IF k = key THEN value ELSE map[k]]

\* Only the first member of the array registered.
SetFirstMember(map, arr, i) ==
  IF arr = <<>> THEN map ELSE MapSet(map, arr[1], arr)

\* `for (const sel of arr) map.set(sel, arr);`
RECURSIVE SetMembers(_, _, _)
SetMembers(map, arr, i) ==
  IF i > Len(arr)
    THEN map
    ELSE SetMembers(MapSet(map, arr[i], arr), arr, i + 1)

\* walk(obj) of buildSelectorMap, and its loop over Object.values(obj).
RECURSIVE Walk(_, _)
RECURSIVE WalkValues(_, _, _)
Walk(map, obj) ==
  IF obj.kind = "array"
    THEN SetMembers(map, obj.items, 1)
    ELSE IF obj.kind = "object"
      THEN WalkValues(map, obj.values, 1)
      ELSE map

WalkValues(map, values, i) ==
  IF i > Len(values)
    THEN map
    ELSE IF values[i].kind \in {"function", "string"}
      THEN WalkValues(map, values, i + 1)
      ELSE WalkValues(Walk(map, values[i]), values, i + 1)

\* buildSelectorMap() over the catalog mmt.
BuildSelectorMap(mmt) == Walk(EmptyMap, mmt)

\* `if (candidate === failedSelector) continue;` left out.
SkipsNothing(candidate, failed) == FALSE

\* `if (candidate === failedSelector) continue;`
SkipsSelf(candidate, failed) == candidate = failed

\* The checks of the loop body of ruleBased that return the candidate:
\* the three shape checks, then the unconditional `return candidate` that
\* ends the body.
IdFound(candidate, markup) ==
  /\ StartsWith(candidate, <<"#">>)
  /\ \/ Includes(markup, IdAttribute(SubSeq(candidate, 2, Len(candidate)), "\""))
     \/ Includes(markup, IdAttribute(SubSeq(candidate, 2, Len(candidate)), "'"))

DataCyFound(candidate, markup) ==
  /\ StartsWith(candidate, DataCyPrefix)
  /\ Includes(markup, SubSeq(candidate, 2, Len(candidate) - 1))

ClassFound(candidate, markup) ==
  /\ StartsWith(candidate, <<".">>)
  /\ LET cls == FirstToken(SubSeq(candidate, 2, Len(candidate)))
     IN  cls # <<>> /\ Includes(markup, cls)

\* The for loop of ruleBased from candidates[i] on.
RECURSIVE RuleLoop(_, _, _, _)
RuleLoop(candidates, i, failed, markup) ==
  IF i > Len(candidates)
    THEN Absent
    ELSE IF SkipsSelf(candidates[i], failed)
      THEN RuleLoop(candidates, i + 1, failed, markup)
      ELSE IF IdFound(candidates[i], markup)
        THEN Some(candidates[i])
        ELSE IF DataCyFound(candidates[i], markup)
          THEN Some(candidates[i])
          ELSE IF ClassFound(candidates[i], markup)
            THEN Some(candidates[i])
            ELSE Some(candidates[i])

\* A selector that is in no group is answered with the first key of the
\* index.
RuleBasedGuesses(failed, markup) ==
  IF failed \notin DOMAIN selectorMap
    THEN IF DOMAIN selectorMap = {}
           THEN Absent
           ELSE Some(CHOOSE k \in DOMAIN selectorMap : TRUE)
    ELSE RuleLoop(selectorMap[failed], 1, failed, markup)

\* ruleBased(failedSelector, html)
RuleBased(failed, markup) ==
  IF failed \notin DOMAIN selectorMap
    THEN Absent
    ELSE RuleLoop(selectorMap[failed], 1, failed, markup)

\* `if (ruleResult)`: null and the empty string are falsy.
Truthy(result) == result.some /\ result.sel # <<>>

\* ---------------------------------------------------------------------
\* Healing service and composite healer
\*
\* src/ai-healing-service.ts (createAIHealingService) and the customHealFn
\* of createMMTHealerConfig.  A suggestSelector call is one step up to
\* its await of the remote provider, and one step for the answer of the
\* remote provider.
\* ---------------------------------------------------------------------

\* trimHtml: default of maxChars.
DefaultMaxChars == 12000

\* '\n<!-- ... truncated ... -->'
TruncationMarker ==
  <<"\n", "<", "!", "-", "-", " ", ".", ".", ".", " ",
    "t", "r", "u", "n", "c", "a", "t", "e", "d", " ",
    ".", ".", ".", " ", "-", "-", ">">>

\* `if (html.length < maxChars) return html;`
TrimHtmlBelowCap(markup, maxChars) ==
  IF Len(markup) < maxChars
    THEN markup
    ELSE SubSeq(markup, 1, maxChars) \o TruncationMarker

\* The marker put in front of the cut snapshot.
TrimHtmlMarksFront(markup, maxChars) ==
  IF Len(markup) <= maxChars
    THEN markup
    ELSE TruncationMarker \o SubSeq(markup, 1, maxChars)

\* trimHtml(html, maxChars)
TrimHtml(markup, maxChars) ==
  IF Len(markup) <= maxChars
    THEN markup
    ELSE SubSeq(markup, 1, maxChars) \o TruncationMarker

\* `hasAnthropicKey || hasOpenAIKey`
HasRemoteKey == hasAnthropicKey \/ hasOpenAIKey

\* `provider: hasAnthropicKey ? 'anthropic' : 'openai'`
RemoteProvider == IF hasAnthropicKey THEN "anthropic" ELSE "openai"

\* The rule-based tier answers only when no remote key is configured.
RuleTierAnswersOffline(result) == Truthy(result) /\ ~HasRemoteKey

\* `if (ruleResult) { return ruleResult; }`
RuleTierAnswers(result) == Truthy(result)

\* `failedSelector.slice(1).split(/[.\s:[\]]/)[0]`
ClassName(failed) == FirstToken(SubSeq(failed, 2, Len(failed)))

\* Tier 3 of customHealFn: the generic heuristics on the selector's shape.
GenericHeuristic(failed) ==
  IF StartsWith(failed, <<"#">>)
    THEN DataTestId(SubSeq(failed, 2, Len(failed)))
    ELSE IF StartsWith(failed, <<".">>)
      THEN ClassContains(ClassName(failed))
      ELSE failed

\* The fields of the orchestrator, which no provider call touches.
orchestrator ==
  <<aiService, a11yEnabled, maxRetries, healingEvents, a11yViolations, pc,
    method, selector, action, attempt, currentSelector, html, suggested,
    lastError, thrown, io, eventsAtCall, calls>>

\* What the index, the environment and the service configuration are.
setup ==
  <<selectorMap, hasAnthropicKey, hasOpenAIKey, provider, catalog, given>>

\* No suggestSelector call has been made on the service.  A service keeps
\* no state between its calls, so one call per service is explored.
ProviderIdle == ppc = "idle"

\* The pieces of markup the snapshots of the healer are made of.
MarkupPieces ==
  << IdAttribute(<<"a">>, "\""),
     IdAttribute(<<"b">>, "'"),
     <<"c", "l", "a", "s", "s", "=", "\"", "k", "\"">>,
     <<"d", "a", "t", "a", "-", "c", "y", "=", "\"", "e", "\"">> >>

\* The pieces numbered in S, from piece i on, one after the other.
RECURSIVE JoinPieces(_, _)
JoinPieces(S, i) ==
  IF i > Len(MarkupPieces)
    THEN <<>>
    ELSE (IF i \in S THEN MarkupPieces[i] \o <<" ">> ELSE <<>>)
           \o JoinPieces(S, i + 1)

\* The snapshots handed to the healer: every choice of pieces.
HealerSnapshots == {JoinPieces(S, 1) : S \in SUBSET (1 .. Len(MarkupPieces))}

\* The selectors a remote provider or a custom function answers with.
ProviderAnswers == {<<"#", "z">>, <<"t">>}

\* service.suggestSelector(failed, snapshot) is called on the custom
\* service: `fn(failedSelector, trimHtml(htmlSnapshot))`.
CallCustom(failed, snapshot) ==
  /\ ProviderIdle
  /\ provider = "custom"
  /\ failedSelector' = failed
  /\ htmlSnapshot' = snapshot
  /\ handed' = TrimHtml(snapshot, DefaultMaxChars)

\* `createAIHealingService({ provider: hasAnthropicKey ? 'anthropic' :
\* 'openai' })`, with the environment of the process.
FallbackService ==
  CreateAIHealingService(
    [provider |-> RemoteProvider, apiKey |-> NotSet, customHealFn |-> FALSE],
    given.env)

\* The service the last createAIHealingService(config) call returned.
CreatedService == CreateAIHealingService(given.ai, given.env)

\* suggestSelector of a remote service: the prompt is built from
\* trimHtml(htmlSnapshot) and callFn issues its fetch, with the key of
\* the service in the header.
AskRemote(service, failed, text) ==
  remote' = [ calls          |-> 1,
              provider       |-> service.providerName,
              failedSelector |-> failed,
              html           |-> TrimHtml(text, DefaultMaxChars),
              requests       |-> 1,
              key            |-> service.apiKey,
              response       |-> NoResponse,
              answered       |-> Absent,
              threw          |-> FALSE ]

\* customHealFn, tier 1: the rule-based result is returned.
HealByRule ==
  \E failed \in FailedSelectors, snapshot \in HealerSnapshots :
    /\ CallCustom(failed, snapshot)
    /\ ruleResult' = RuleBased(failed, handed')
    /\ RuleTierAnswers(ruleResult')
    /\ answer' = ruleResult'
    /\ remote' = NoRemote
    /\ ppc' = "returned"
    /\ UNCHANGED <<orchestrator, sessions, setup, connection>>

\* customHealFn, tier 2: a remote service is created and asked.
HealByRemoteOf(selectors, snapshots) ==
  \E failed \in selectors, snapshot \in snapshots :
    /\ CallCustom(failed, snapshot)
    /\ ruleResult' = RuleBased(failed, handed')
    /\ ~RuleTierAnswers(ruleResult')
    /\ HasRemoteKey
    /\ answer' = Absent
    /\ AskRemote(FallbackService, failed, handed')
    /\ ppc' = "remote"
    /\ UNCHANGED <<orchestrator, sessions, setup, connection>>

\* The composite healer is asked with one of the snapshots of the model.
HealByRemote == HealByRemoteOf(FailedSelectors, HealerSnapshots)

\* customHealFn, tier 3: the generic heuristics.
HealByShape ==
  \E failed \in FailedSelectors, snapshot \in HealerSnapshots :
    /\ CallCustom(failed, snapshot)
    /\ ruleResult' = RuleBased(failed, handed')
    /\ ~RuleTierAnswers(ruleResult')
    /\ ~HasRemoteKey
    /\ answer' = Some(GenericHeuristic(failed))
    /\ remote' = NoRemote
    /\ ppc' = "returned"
    /\ UNCHANGED <<orchestrator, sessions, setup, connection>>

\* callAnthropic / callOpenAI resolves with a selector.
RemoteReturns ==
  /\ ppc = "remote"
  /\ \E sel \in ProviderAnswers :
       /\ remote' = [remote EXCEPT !.answered = Some(sel)]
       /\ answer' = Some(sel)
  /\ ppc' = "returned"
  /\ UNCHANGED <<orchestrator, sessions, setup, connection, failedSelector,
                 htmlSnapshot, handed, ruleResult>>

\* The error of the remote provider is caught and tier 3 answers.
RemoteThrowsFallsBack ==
  /\ ppc = "remote"
  /\ remote' = [remote EXCEPT !.threw = TRUE]
  /\ answer' = Some(GenericHeuristic(failedSelector))
  /\ ppc' = "returned"
  /\ UNCHANGED <<orchestrator, sessions, setup, connection, failedSelector,
                 htmlSnapshot, handed, ruleResult>>

\* callAnthropic / callOpenAI rejects: the suggestSelector call rejects.
RemoteThrows ==
  /\ ppc = "remote"
  /\ remote' = [remote EXCEPT !.threw = TRUE]
  /\ ppc' = "threw"
  /\ UNCHANGED <<orchestrator, sessions, setup, connection, failedSelector,
                 htmlSnapshot, handed, ruleResult, answer>>

\* The module is loaded (selectorMap is built from a catalog with one
\* candidate group) and createMMTHealerConfig() reads the environment;
\* the custom service is created from its result.
InitHealer ==
  /\ Running(NewSession("custom", FALSE, DefaultMaxHealingRetries))
  /\ calls = 0
  /\ running = 1
  /\ parked = NoSession
  /\ \E group \in Groups :
       /\ catalog = Catalog(group)
       /\ selectorMap = BuildSelectorMap(Catalog(group))
  /\ Plain
  /\ hasAnthropicKey \in BOOLEAN
  /\ hasOpenAIKey \in BOOLEAN
  /\ given = [GivenFor("custom") EXCEPT
                !.env = EnvWith(hasAnthropicKey, hasOpenAIKey)]
  /\ provider = "custom"
  /\ NoHealCall

NextHealer ==
  \/ HealByRule
  \/ HealByRemote
  \/ HealByShape
  \/ RemoteReturns
  \/ RemoteThrows

SpecHealer == InitHealer /\ [][NextHealer]_vars

\* ---------------------------------------------------------------------
\* Properties of the rule-based healer and of the composite healer
\* ---------------------------------------------------------------------

\* A suggestSelector call has been made on the healer.
Asked == ppc # "idle"

\* A candidate is plausible against the markup: an ID selector whose
\* id="name" or id='name' is in the markup, an attribute selector whose
\* inner attr="value" is in the markup, a class selector whose leading
\* class name is in the markup, and every selector of another shape.
Plausible(candidate, markup) ==
  IF StartsWith(candidate, <<"#">>)
    THEN LET name == SubSeq(candidate, 2, Len(candidate))
         IN  \/ Includes(markup, <<"i", "d", "=", "\"">> \o name \o <<"\"">>)
             \/ Includes(markup, <<"i", "d", "=", "'">> \o name \o <<"'">>)
    ELSE IF StartsWith(candidate, <<"[">>)
      THEN Includes(markup, SubSeq(candidate, 2, Len(candidate) - 1))
      ELSE IF StartsWith(candidate, <<".">>)
        THEN Includes(markup, FirstToken(SubSeq(candidate, 2, Len(candidate))))
        ELSE TRUE

\* The first plausible member of the group other than the failed selector
\* and, when none is plausible, the first member other than it.
FirstPlausible(group, failed, markup) ==
  LET IsOther(c) == c # failed
      IsGood(c) == Plausible(c, markup)
      others == SelectSeq(group, IsOther)
      good == SelectSeq(others, IsGood)
  IN  IF good # <<>>
        THEN Some(good[1])
        ELSE IF others # <<>> THEN Some(others[1]) ELSE Absent

\* C13: for a failed selector in the index, the rule-based healer returns
\* the first member of its group, the failed selector left out, that is
\* plausible against the markup, and the first member other than the
\* failed selector only when no member is plausible.
C13_FirstPlausibleMember ==
  (Asked /\ failedSelector \in DOMAIN selectorMap) =>
    ruleResult =
      FirstPlausible(selectorMap[failedSelector], failedSelector, handed)

\* C14: the result of the rule-based healer is never the failed selector
\* it was asked about: it is absent or another selector.
C14_NeverTheFailedSelector ==
  Asked => ~(ruleResult.some /\ ruleResult.sel = failedSelector)

\* C14 witness: the failed selector is the first member of its group and
\* the healer has answered with the second member.
C14_Witness ==
  /\ Asked
  /\ failedSelector \in DOMAIN selectorMap
  /\ selectorMap[failedSelector][1] = failedSelector
  /\ ruleResult = Some(selectorMap[failedSelector][2])

\* C15: for a selector that is no key of the index the rule-based healer
\* returns no suggestion, whatever the markup.
C15_UnknownSelectorIsAbsent ==
  (Asked /\ failedSelector \notin DOMAIN selectorMap) => ruleResult = Absent

\* C15 witness: a selector that is a member of other catalogs' groups but
\* no key of this index was asked about, with markup that holds an id.
C15_Witness ==
  /\ Asked
  /\ failedSelector = SelB
  /\ SelB \notin DOMAIN selectorMap
  /\ SelA \in DOMAIN selectorMap
  /\ Includes(handed, IdAttribute(<<"a">>, "\""))
  /\ ruleResult = Absent

\* C16: whenever the rule-based tier has a suggestion, the composite
\* returns that suggestion and no remote call is made, with or without a
\* remote key.
C16_RuleTierAnswersAlone ==
  (Asked /\ RuleBased(failedSelector, handed).some) =>
    /\ ppc = "returned"
    /\ answer = RuleBased(failedSelector, handed)
    /\ remote.calls = 0

\* C16 witness: with both keys set, the composite has returned the
\* rule-based suggestion.
C16_Witness ==
  /\ ppc = "returned"
  /\ hasAnthropicKey
  /\ hasOpenAIKey
  /\ ruleResult.some
  /\ answer = ruleResult
  /\ remote = NoRemote

\* C17: when the rule-based tier is absent and a remote key is set, the
\* remote provider is asked exactly once; the composite returns what it
\* answered, or rejects when it rejected, and the generic heuristics are
\* not applied.
C17_RemoteTierDelegates ==
  (Asked /\ ~RuleBased(failedSelector, handed).some /\ HasRemoteKey) =>
    /\ remote.calls = 1
    /\ remote.failedSelector = failedSelector
    /\ ppc = "returned" => (remote.answered.some /\ answer = remote.answered)
    /\ remote.threw => (ppc = "threw" /\ answer = Absent)
    /\ ppc = "threw" => remote.threw

\* C17 witness: the remote provider was asked about an unknown ID
\* selector and rejected; the call has rejected without an answer.
C17_Witness ==
  /\ ppc = "threw"
  /\ failedSelector = SelU
  /\ remote.calls = 1
  /\ remote.threw
  /\ remote.provider = "openai"
  /\ answer = Absent

\* The longest prefix of s without '.', whitespace, ':', '[' and ']'.
LeadingClassName(s) ==
  LET Stop(c) == c \in {".", " ", "\t", "\n", ":", "[", "]"}
      n == CHOOSE k \in 0 .. Len(s) :
             /\ \A i \in 1 .. k : ~Stop(s[i])
             /\ k < Len(s) => Stop(s[k + 1])
  IN  SubSeq(s, 1, n)

\* C18: with no index entry and no remote key, the composite maps #name
\* to [data-testid="name"], a class selector to [class*="token"] with the
\* leading class name as token, and returns any other selector unchanged.
C18_GenericHeuristics ==
  (Asked /\ failedSelector \notin DOMAIN selectorMap /\ ~HasRemoteKey) =>
    /\ ppc = "returned"
    /\ LET name == SubSeq(failedSelector, 2, Len(failedSelector))
       IN  answer =
             Some(IF StartsWith(failedSelector, <<"#">>)
                    THEN <<"[", "d", "a", "t", "a", "-", "t", "e", "s", "t",
                           "i", "d", "=", "\"">> \o name \o <<"\"", "]">>
                    ELSE IF StartsWith(failedSelector, <<".">>)
                      THEN <<"[", "c", "l", "a", "s", "s", "*", "=", "\"">>
                             \o LeadingClassName(name) \o <<"\"", "]">>
                      ELSE failedSelector)

\* C18 witness: the class selector .v:w, unknown to the index, was mapped
\* to [class*="v"] with no remote key set.
C18_Witness ==
  /\ ppc = "returned"
  /\ ~HasRemoteKey
  /\ failedSelector = SelV
  /\ SelV \notin DOMAIN selectorMap
  /\ answer = Some(<<"[", "c", "l", "a", "s", "s", "*", "=", "\"", "v",
                     "\"", "]">>)

\* ---------------------------------------------------------------------
\* Markup truncation in the healing service
\*
\* A service created by createAIHealingService with a custom function of
\* the test (as in tests/unit/ai-healing-service.test.ts) or with a remote
\* provider, asked with snapshots around the length of the cap.
\* ---------------------------------------------------------------------

\* The longest snapshot is this much longer than the cap.
MaxOvershoot == 28

\* 'x'.repeat(n)
Filler(n) == [i \in 1 .. n |-> "x"]

\* The snapshots the service is asked with: empty, short, of every
\* length from below the cap to MaxOvershoot above it, and snapshots that
\* hold the truncation marker themselves.
ServiceSnapshots ==
  {Filler(n) : n \in {0, 1} \cup
                     (DefaultMaxChars - 1 .. DefaultMaxChars + MaxOvershoot)}
    \cup {TruncationMarker,
          Filler(DefaultMaxChars - Len(TruncationMarker)) \o TruncationMarker,
          Filler(DefaultMaxChars) \o TruncationMarker}

\* The failed selectors the service is asked about.
ServiceSelectors == {SelA, SelU}

\* suggestSelector of the custom service: the custom function is called
\* with the trimmed snapshot.
SuggestCustom ==
  \E failed \in ServiceSelectors, snapshot \in ServiceSnapshots :
    /\ CallCustom(failed, snapshot)
    /\ ppc' = "customHealFn"
    /\ UNCHANGED <<orchestrator, sessions, setup, connection, ruleResult, answer,
                   remote>>

\* The custom function of the test resolves with a selector.
CustomReturns ==
  /\ ppc = "customHealFn"
  /\ \E sel \in ProviderAnswers : answer' = Some(sel)
  /\ ppc' = "returned"
  /\ UNCHANGED <<orchestrator, sessions, setup, connection, failedSelector,
                 htmlSnapshot, handed, ruleResult, remote>>

\* The custom function of the test rejects.
CustomThrows ==
  /\ ppc = "customHealFn"
  /\ ppc' = "threw"
  /\ UNCHANGED <<orchestrator, sessions, setup, connection, failedSelector,
                 htmlSnapshot, handed, ruleResult, answer, remote>>

\* suggestSelector of a remote service, asked with one of the snapshots:
\* `buildPrompt(failedSelector, trimHtml(htmlSnapshot))`, then callFn.
SuggestRemoteWith(snapshots) ==
  \E failed \in ServiceSelectors, snapshot \in snapshots :
    /\ ProviderIdle
    /\ provider \in {"anthropic", "openai"}
    /\ failedSelector' = failed
    /\ htmlSnapshot' = snapshot
    /\ AskRemote(CreatedService, failed, snapshot)
    /\ handed' = remote'.html
    /\ ppc' = "remote"
    /\ UNCHANGED <<orchestrator, sessions, setup, connection, ruleResult, answer>>

\* The remote service is asked with a snapshot around the cap.
SuggestRemote == SuggestRemoteWith(ServiceSnapshots)

\* createAIHealingService(config) has returned a service: a custom one
\* or a remote one.
InitService ==
  /\ Running(NewSession("custom", FALSE, DefaultMaxHealingRetries))
  /\ calls = 0
  /\ running = 1
  /\ parked = NoSession
  /\ selectorMap = EmptyMap
  /\ hasAnthropicKey = FALSE
  /\ hasOpenAIKey = FALSE
  /\ provider \in ProviderNames
  /\ given = GivenFor(provider)
  /\ NoHealCall
  /\ catalog = NoCatalog
  /\ Plain

NextService ==
  \/ SuggestCustom
  \/ CustomReturns
  \/ CustomThrows
  \/ SuggestRemote
  \/ RemoteReturns
  \/ RemoteThrows

SpecService == InitService /\ [][NextService]_vars

\* suggestSelector has been called on the service.
Handed == ppc # "idle"

\* C19: for every snapshot longer than the cap, the text handed to the
\* provider (custom or remote) is shorter than the snapshot and ends with
\* the truncation marker.
C19_LongSnapshotIsShortened ==
  (Handed /\ Len(htmlSnapshot) > DefaultMaxChars) =>
    /\ Len(handed) < Len(htmlSnapshot)
    /\ EndsWith(handed, TruncationMarker)

\* C20: for every snapshot of at most the cap's length, the text handed
\* to the provider is the snapshot itself, character for character.
C20_ShortSnapshotIsUnchanged ==
  (Handed /\ Len(htmlSnapshot) <= DefaultMaxChars) => handed = htmlSnapshot

\* C20 witness: a snapshot of exactly the cap's length, which ends with
\* the text of the marker, was handed to a remote provider as it is.
C20_Witness ==
  /\ ppc = "remote"
  /\ Len(htmlSnapshot) = DefaultMaxChars
  /\ EndsWith(htmlSnapshot, TruncationMarker)
  /\ handed = htmlSnapshot
  /\ remote.html = htmlSnapshot

\* ---------------------------------------------------------------------
\* Remote providers
\*
\* createAIHealingService is called with a remote configuration (as in
\* tests/unit/ai-healing-service.test.ts) and, when it returns a service,
\* suggestSelector is called on it once; fetch is the environment.
\* ---------------------------------------------------------------------

\* What config.apiKey can be: not supplied, the empty string, a key.
ConfigKeys == {NotSet, "", TestKey}

\* What process.env can hold for each of the two variables.
Environments ==
  [ ANTHROPIC_API_KEY : {NotSet, "", AnthropicEnvKey},
    OPENAI_API_KEY    : {NotSet, "", OpenAIEnvKey} ]

\* The remote configurations createAIHealingService is called with.
RemoteConfigs ==
  [ provider     : {"anthropic", "openai"},
    apiKey       : ConfigKeys,
    customHealFn : {FALSE} ]

\* The snapshots the remote service is asked with.
RemoteSnapshots == {<<>>, IdAttribute(<<"a">>, "\"")}

\* White space String.prototype.trim removes.
WhiteSpace == {" ", "\n", "\t"}

\* The white space at the start of the text removed.
RECURSIVE TrimStart(_)
TrimStart(text) ==
  IF text # <<>> /\ Head(text) \in WhiteSpace
    THEN TrimStart(Tail(text))
    ELSE text

\* The white space at the end of the text removed.
RECURSIVE TrimEnd(_)
TrimEnd(text) ==
  IF text # <<>> /\ text[Len(text)] \in WhiteSpace
    THEN TrimEnd(SubSeq(text, 1, Len(text) - 1))
    ELSE text

\* The text returned as the response holds it.
TrimNothing(text) == text

\* `.trim()`
Trim(text) == TrimEnd(TrimStart(text))

\* The texts a segment of a response holds.
SegmentTexts ==
  { <<>>, <<" ">>, <<"\n", " ">>, <<"t">>, <<" ", "#", "z", "\n">> }

\* A segment of the response: content[i] of Anthropic (its text), or
\* choices[i] of OpenAI (its message.content); the text can be missing.
Segments == {Absent} \cup {Some(text) : text \in SegmentTexts}

\* What fetch settles with: it rejects; a response that is not ok; an ok
\* response whose body is no JSON; an ok response whose JSON holds no list
\* of segments; an ok response with a list of at most two segments.
Responses ==
  { [kind |-> k, segments |-> <<>>] :
      k \in {"rejected", "notOk", "notJson", "noList"} }
    \cup { [kind |-> "list", segments |-> <<>>] }
    \cup { [kind |-> "list", segments |-> <<a>>] : a \in Segments }
    \cup { [kind |-> "list", segments |-> <<a, b>>] :
             a \in Segments, b \in Segments }

\* `json.content?.[0]?.text?.trim()` and
\* `json.choices?.[0]?.message?.content?.trim()`
FirstText(response) ==
  IF response.kind = "list" /\ Len(response.segments) >= 1
       /\ response.segments[1].some
    THEN Some(Trim(response.segments[1].sel))
    ELSE Absent

\* callAnthropic / callOpenAI once fetch has settled: the selector the
\* call resolves with, or absent when it rejects.
CallResult(response) ==
  IF response.kind \in {"rejected", "notOk", "notJson"}
    THEN Absent
    ELSE IF ~Truthy(FirstText(response))
      THEN Absent
      ELSE FirstText(response)

\* createAIHealingService(config) returns a service or throws.
CreateService ==
  /\ ppc = "new"
  /\ LET service == CreatedService
     IN  IF service.threw
           THEN ppc' = "createThrew" /\ UNCHANGED provider
           ELSE ppc' = "idle" /\ provider' = service.providerName
  /\ UNCHANGED <<orchestrator, sessions, connection, selectorMap,
                 hasAnthropicKey, hasOpenAIKey, catalog, given,
                 failedSelector, htmlSnapshot, handed, ruleResult, answer,
                 remote>>

\* The service is asked with a short snapshot.
SuggestRemoteShort == SuggestRemoteWith(RemoteSnapshots)

\* fetch settles and callAnthropic / callOpenAI resolves or rejects.
RemoteSettles ==
  /\ ppc = "remote"
  /\ \E response \in Responses :
       LET result == CallResult(response)
       IN  /\ remote' = [remote EXCEPT !.response = response,
                                       !.answered = result,
                                       !.threw = ~result.some]
           /\ answer' = result
           /\ ppc' = IF result.some THEN "returned" ELSE "threw"
  /\ UNCHANGED <<orchestrator, sessions, setup, connection, failedSelector,
                 htmlSnapshot, handed, ruleResult>>

\* A test is about to call createAIHealingService with a remote
\* configuration.
InitRemote ==
  /\ Running(NewSession(NoService, FALSE, DefaultMaxHealingRetries))
  /\ calls = 0
  /\ running = 1
  /\ parked = NoSession
  /\ selectorMap = EmptyMap
  /\ hasAnthropicKey = FALSE
  /\ hasOpenAIKey = FALSE
  /\ provider = NoService
  /\ \E ai \in RemoteConfigs, environment \in Environments :
       given = [ai |-> ai, env |-> environment,
                useSnapshotsForHealing |-> FALSE]
  /\ failedSelector = <<>>
  /\ htmlSnapshot = <<>>
  /\ handed = <<>>
  /\ ruleResult = Absent
  /\ answer = Absent
  /\ remote = NoRemote
  /\ ppc = "new"
  /\ catalog = NoCatalog
  /\ Plain

NextRemote ==
  \/ CreateService
  \/ SuggestRemoteShort
  \/ RemoteSettles

SpecRemote == InitRemote /\ [][NextRemote]_vars

\* ---------------------------------------------------------------------
\* Properties of the remote providers
\* ---------------------------------------------------------------------

\* A key that can be used: supplied or set, and not the empty string.
Usable(key) == key # NotSet /\ key # ""

\* createAIHealingService has returned a service.
Created == ppc \notin {"new", "createThrew"}

\* C21: credential resolution of a remote provider.  The explicit config
\* value is used when it is supplied, otherwise the provider's own
\* environment variable; construction throws exactly when neither source
\* supplies a usable key, so that a usable key in the provider's
\* environment variable is always enough to construct the service.
C21_CredentialResolution ==
  LET explicit == given.ai.apiKey
      fromEnv == EnvKey(given.ai.provider, given.env)
  IN  /\ ppc # "new" =>
           (ppc = "createThrew" <=> ~(Usable(explicit) \/ Usable(fromEnv)))
      /\ (ppc # "new" /\ Usable(fromEnv)) => Created
      /\ remote.requests > 0 =>
           remote.key = IF Usable(explicit) THEN explicit ELSE fromEnv

\* C22: one suggestSelector call on a remote service issues exactly one
\* HTTP request.  The call rejects when fetch brings no successful
\* response or when the first text segment of the response is missing,
\* empty or only white space; otherwise it resolves with that first text
\* segment, trimmed.  It never resolves with the empty string.
C22_OneRequestNoEmptySelector ==
  LET response == remote.response
      hasFirst == /\ response.kind = "list"
                  /\ Len(response.segments) >= 1
                  /\ response.segments[1].some
      blank == \A i \in 1 .. Len(response.segments[1].sel) :
                 response.segments[1].sel[i] \in WhiteSpace
  IN  /\ ppc \in {"remote", "returned", "threw"} => remote.requests = 1
      /\ ppc = "threw" <=>
           (response.kind # "pending" /\ (~hasFirst \/ blank))
      /\ ppc = "returned" =>
           /\ hasFirst /\ ~blank
           /\ answer = Some(Trim(response.segments[1].sel))
           /\ answer.sel # <<>>
           /\ answer.sel[1] \notin WhiteSpace
           /\ answer.sel[Len(answer.sel)] \notin WhiteSpace

\* C22 witness: the first segment held a selector between white space, a
\* second segment followed, and the call resolved with the selector.
C22_Witness ==
  /\ ppc = "returned"
  /\ remote.requests = 1
  /\ Len(remote.response.segments) = 2
  /\ remote.response.segments[1].sel = <<" ", "#", "z", "\n">>
  /\ answer = Some(<<"#", "z">>)

\* ---------------------------------------------------------------------
\* Construction of a session
\*
\* `new ResilientPage(page, config)` is evaluated with one of a few
\* configurations, valid ones and invalid ones; the action calls of the
\* test are made on the object it returns.
\* ---------------------------------------------------------------------

\* Error thrown by createAIHealingService.
ConfigError(text) == Err("config", "", 0, text)

\* config.ai of the constructor calls: no provider, a custom provider with
\* and without its function, remote providers with and without a key.
ConstructorConfigs ==
  { NoAiConfig,
    ConfigOf("custom"),
    [ConfigOf("custom") EXCEPT !.customHealFn = FALSE],
    ConfigOf("anthropic"),
    [ConfigOf("anthropic") EXCEPT !.apiKey = NotSet],
    [ConfigOf("openai") EXCEPT !.apiKey = NotSet] }

\* process.env of the constructor calls: no key, or the OpenAI key only.
ConstructorEnvironments == {NoEnv, EnvWith(FALSE, TRUE)}

\* The service made whatever the configuration holds, its validation left
\* to the first healing attempt.
ServiceOfUnchecked(ai, environment) ==
  IF ai = NoAiConfig
    THEN [threw |-> FALSE, error |-> "", providerName |-> NoService,
          apiKey |-> ""]
    ELSE CreatesUnchecked(ai, environment)

\* `merged.ai !== false ? createAIHealingService(merged.ai) : null`
ServiceOf(ai, environment) ==
  IF ai = NoAiConfig
    THEN [threw |-> FALSE, error |-> "", providerName |-> NoService,
          apiKey |-> ""]
    ELSE CreateAIHealingService(ai, environment)

\* The constructor of ResilientPage: it returns the session, or throws
\* the error of createAIHealingService and returns no object.
Construct ==
  /\ pc = "new"
  /\ LET service == ServiceOf(given.ai, given.env)
     IN  IF service.threw
           THEN /\ pc' = "constructorThrew"
                /\ thrown' = ConfigError(service.error)
                /\ UNCHANGED <<config, healingEvents, a11yViolations>>
           ELSE /\ pc' = "idle"
                /\ aiService' = service.providerName
                /\ \E a11y \in BOOLEAN : a11yEnabled' = a11y
                /\ maxRetries' = DefaultMaxHealingRetries
                /\ healingEvents' = <<>>
                /\ a11yViolations' = <<>>
                /\ UNCHANGED thrown
  /\ UNCHANGED <<sessions, healer, connection, method, selector, action,
                 locals, io, eventsAtCall, calls>>

\* A test is about to construct its session.
InitConstruct ==
  /\ Running([NewSession(NoService, FALSE, DefaultMaxHealingRetries)
                EXCEPT !.pc = "new"])
  /\ calls = 0
  /\ running = 1
  /\ parked = NoSession
  /\ selectorMap = EmptyMap
  /\ hasAnthropicKey = FALSE
  /\ hasOpenAIKey = FALSE
  /\ provider = NoService
  /\ NoHealCall
  /\ catalog = NoCatalog
  /\ \E ai \in ConstructorConfigs, environment \in ConstructorEnvironments :
       given = [ai |-> ai, env |-> environment,
                useSnapshotsForHealing |-> FALSE]
  /\ Plain

NextConstruct ==
  \/ Construct
  \/ Next

SpecConstruct == InitConstruct /\ [][NextConstruct]_vars

\* The session object exists: the constructor has returned it.
SessionExists == pc \notin {"new", "constructorThrew"}

\* The provider configuration is valid: no provider, a custom provider
\* with its function, or a remote provider with a key.
ValidProviderConfig(ai, environment) ==
  \/ ai = NoAiConfig
  \/ ai.provider = "custom" /\ ai.customHealFn
  \/ /\ ai.provider \in {"anthropic", "openai"}
     /\ \/ Usable(ai.apiKey)
        \/ ai.apiKey = NotSet /\ Usable(EnvKey(ai.provider, environment))

\* What C23 requires of a state.
ConfigErrorsAreConstructionErrors ==
  /\ SessionExists =>
       /\ ValidProviderConfig(given.ai, given.env)
       /\ aiService =
            (IF given.ai = NoAiConfig THEN NoService ELSE given.ai.provider)
       /\ thrown.kind # "config"
  /\ pc = "constructorThrew" =>
       /\ ~ValidProviderConfig(given.ai, given.env)
       /\ thrown.kind = "config"
       /\ calls = 0
       /\ io = NoIo
       /\ healingEvents = <<>>

\* C23: configuration errors (missing remote credential, missing custom
\* function) are raised by the constructor.  A session object exists only
\* with a valid provider configuration; when the constructor has thrown
\* there is no object, so that no step follows on it (no resolution
\* attempt, no snapshot pull, no provider call), and no step of the
\* healing loop raises, catches or retries a configuration error.
C23_ConfigErrorsAtConstruction ==
  [][ /\ pc # "constructorThrew"
      /\ ConfigErrorsAreConstructionErrors'
      /\ (thrown'.kind = "config" => pc = "new") ]_vars

\* C23 witness: the constructor threw for an openai configuration without
\* key in an environment without keys; no object, and no call made.
C23_Witness ==
  /\ pc = "constructorThrew"
  /\ given.ai.provider = "openai"
  /\ given.env = NoEnv
  /\ thrown = ConfigError("No API key provided")
  /\ calls = 0

\* ---------------------------------------------------------------------
\* Construction of the candidate index
\*
\* The module makemytrip.healer.ts is loaded with a catalog of two
\* candidate groups at different depths, between a string and a function;
\* the groups may hold the same selector, as flights.fromCity and
\* hotels.city of MMT do.
\* ---------------------------------------------------------------------

\* A catalog like MMT with two candidate groups: a string (BASE_URL), then
\* an object with a group, a function (datePicker.day) and a nested object
\* with the second group.
CatalogOfTwo(first, second) ==
  ObjectValue(<<StringValue,
                ObjectValue(<<ArrayValue(first),
                              FunctionValue,
                              ObjectValue(<<ArrayValue(second),
                                            StringValue>>)>>)>>)

\* `const selectorMap = buildSelectorMap();` at module load.
LoadModule ==
  /\ ppc = "load"
  /\ selectorMap' = BuildSelectorMap(catalog)
  /\ ppc' = "idle"
  /\ UNCHANGED <<orchestrator, sessions, connection, hasAnthropicKey,
                 hasOpenAIKey, provider, catalog, given, failedSelector,
                 htmlSnapshot, handed, ruleResult, answer, remote>>

\* The module is about to be loaded.
InitIndex ==
  /\ Running(NewSession("custom", FALSE, DefaultMaxHealingRetries))
  /\ calls = 0
  /\ running = 1
  /\ parked = NoSession
  /\ \E first \in Groups, second \in Groups :
       catalog = CatalogOfTwo(first, second)
  /\ selectorMap = EmptyMap
  /\ hasAnthropicKey = FALSE
  /\ hasOpenAIKey = FALSE
  /\ given = GivenFor("custom")
  /\ provider = "custom"
  /\ failedSelector = <<>>
  /\ htmlSnapshot = <<>>
  /\ handed = <<>>
  /\ ruleResult = Absent
  /\ answer = Absent
  /\ remote = NoRemote
  /\ ppc = "load"
  /\ Plain

NextIndex == LoadModule

SpecIndex == InitIndex /\ [][NextIndex]_vars

\* The members of an array.
Members(arr) == {arr[i] : i \in DOMAIN arr}

\* The arrays of a value that are reached through object-valued
\* properties, in the order of the properties.
RECURSIVE ArraysOf(_)
RECURSIVE ArraysFrom(_, _)
ArraysOf(value) ==
  IF value.kind = "array"
    THEN <<value.items>>
    ELSE IF value.kind = "object"
      THEN ArraysFrom(value.values, 1)
      ELSE <<>>

ArraysFrom(values, i) ==
  IF i > Len(values)
    THEN <<>>
    ELSE ArraysOf(values[i]) \o ArraysFrom(values, i + 1)

\* The index has been built.
Built == ppc # "load"

\* C24: once the index is built, every member of every array reachable in
\* the catalog through object-valued properties is a key, every key maps
\* to a reachable array that contains it, and there is no other key:
\* string values and function values contribute none.
C24_IndexHoldsEveryMember ==
  Built =>
    LET groups == ArraysOf(catalog)
    IN  /\ \A g \in DOMAIN groups : Members(groups[g]) \subseteq DOMAIN selectorMap
        /\ \A s \in DOMAIN selectorMap :
             /\ s \in Members(selectorMap[s])
             /\ \E g \in DOMAIN groups : selectorMap[s] = groups[g]

\* C24 witness: an index built from a group of three selectors and a
\* group of two without a common member has five keys.
C24_Witness ==
  /\ Built
  /\ Len(ArraysOf(catalog)) = 2
  /\ Len(ArraysOf(catalog)[1]) = 3
  /\ Cardinality(DOMAIN selectorMap) = 5

MaxMcpCalls == 3

\* callTool, listTools and the convenience wrappers, which all go through
\* callTool (snapshot is one of them).
ToolMethods == {"callTool", "listTools", "snapshot"}

\* 'MCP connection not established. Call connect() first.'
NotEstablishedError == "MCP connection not established"

\* A call on the connection that has just been issued.
McpCall(op, at) ==
  [ op           |-> op,
    pc           |-> at,
    error        |-> "",
    wasConnected |-> mcp.connected,  \* this._connected when it was issued
    caught       |-> 0,              \* errors its catch clauses swallowed
    result       |-> "" ]            \* text it resolved with

\* Call i moves on to its next await, or settles.
Moves(i, at) == mcpCalls' = [mcpCalls EXCEPT ![i].pc = at]

\* Call i rejects with an error.
Rejects(i, text) ==
  mcpCalls' = [mcpCalls EXCEPT ![i].pc = "threw", ![i].error = text]

\* The guard that only looks at the client.
NotEstablishedNoClient == mcp.client = 0

\* `if (!this.client || !this._connected)`
NotEstablished == mcp.client = 0 \/ ~mcp.connected

\* The server of the connection kept after disconnect.
ReleasedKeepsServer ==
  [client |-> 0, server |-> mcp.server, transport |-> 0, connected |-> FALSE]

\* `this.client = null; this.server = null; this.transport = null;
\*  this._connected = false;`
Released == [client |-> 0, server |-> 0, transport |-> 0, connected |-> FALSE]

\* connect() is called: `if (this._connected) return;`, then the first
\* dynamic import is awaited.
ConnectStart ==
  /\ Len(mcpCalls) < MaxMcpCalls
  /\ mcpCalls' =
       Append(mcpCalls,
              McpCall("connect",
                      IF mcp.connected THEN "returned" ELSE "import"))
  /\ UNCHANGED <<orchestrator, sessions, healer, mcp, mcpSeen>>

\* The optional packages are not installed: an import rejects.
ConnectImportFails ==
  \E i \in DOMAIN mcpCalls :
    /\ mcpCalls[i].pc = "import"
    /\ Rejects(i, "import")
    /\ UNCHANGED <<orchestrator, sessions, healer, mcp, mcpSeen>>

\* The imports resolve: `await createConnection(pwMcpConfig)` is next.
ConnectImported ==
  \E i \in DOMAIN mcpCalls :
    /\ mcpCalls[i].pc = "import"
    /\ Moves(i, "createConnection")
    /\ UNCHANGED <<orchestrator, sessions, healer, mcp, mcpSeen>>

\* createConnection resolves: `this.server = ...`, `this.transport = ...`,
\* and `await this.server.connect(serverTransport)` is next.
CreateConnectionOk ==
  \E i \in DOMAIN mcpCalls :
    /\ mcpCalls[i].pc = "createConnection"
    /\ mcp' = [mcp EXCEPT !.server = i, !.transport = i]
    /\ mcpSeen' = [mcpSeen EXCEPT !.created = @ + 1]
    /\ Moves(i, "serverConnect")
    /\ UNCHANGED <<orchestrator, sessions, healer>>

\* createConnection rejects.
CreateConnectionThrows ==
  \E i \in DOMAIN mcpCalls :
    /\ mcpCalls[i].pc = "createConnection"
    /\ Rejects(i, "createConnection")
    /\ UNCHANGED <<orchestrator, sessions, healer, mcp, mcpSeen>>

\* server.connect resolves: `this.client = new Client(...)`, and
\* `await this.client.connect(clientTransport)` is next.
ServerConnectOk ==
  \E i \in DOMAIN mcpCalls :
    /\ mcpCalls[i].pc = "serverConnect"
    /\ mcp' = [mcp EXCEPT !.client = i]
    /\ Moves(i, "clientConnect")
    /\ UNCHANGED <<orchestrator, sessions, healer, mcpSeen>>

\* server.connect rejects.
ServerConnectThrows ==
  \E i \in DOMAIN mcpCalls :
    /\ mcpCalls[i].pc = "serverConnect"
    /\ Rejects(i, "serverConnect")
    /\ UNCHANGED <<orchestrator, sessions, healer, mcp, mcpSeen>>

\* client.connect resolves: `this._connected = true;`
ClientConnectOk ==
  \E i \in DOMAIN mcpCalls :
    /\ mcpCalls[i].pc = "clientConnect"
    /\ mcp' = [mcp EXCEPT !.connected = TRUE]
    /\ Moves(i, "returned")
    /\ UNCHANGED <<orchestrator, sessions, healer, mcpSeen>>

\* client.connect rejects.
ClientConnectThrows ==
  \E i \in DOMAIN mcpCalls :
    /\ mcpCalls[i].pc = "clientConnect"
    /\ Rejects(i, "clientConnect")
    /\ UNCHANGED <<orchestrator, sessions, healer, mcp, mcpSeen>>

\* callTool, listTools or a wrapper is called: the guard, then
\* `await this.client.callTool(...)` / `await this.client.listTools()`.
ToolStart ==
  /\ Len(mcpCalls) < MaxMcpCalls
  /\ \E op \in ToolMethods :
       IF NotEstablished
         THEN /\ mcpCalls' =
                   Append(mcpCalls,
                          [McpCall(op, "threw") EXCEPT
                             !.error = NotEstablishedError])
              /\ UNCHANGED mcpSeen
         ELSE /\ mcpCalls' = Append(mcpCalls, McpCall(op, "clientCall"))
              /\ mcpSeen' = [mcpSeen EXCEPT !.toolCalls = @ + 1]
  /\ UNCHANGED <<orchestrator, sessions, healer, mcp>>

\* The call of the client resolves.
ToolOk ==
  \E i \in DOMAIN mcpCalls :
    /\ mcpCalls[i].op \in ToolMethods
    /\ mcpCalls[i].pc = "clientCall"
    /\ Moves(i, "returned")
    /\ UNCHANGED <<orchestrator, sessions, healer, mcp, mcpSeen>>

\* The call of the client rejects.
ToolThrows ==
  \E i \in DOMAIN mcpCalls :
    /\ mcpCalls[i].op \in ToolMethods
    /\ mcpCalls[i].pc = "clientCall"
    /\ Rejects(i, "tool")
    /\ UNCHANGED <<orchestrator, sessions, healer, mcp, mcpSeen>>

\* The second try block of disconnect and the assignments after it, for
\* call i: `await this.server.close()` when a server is held, else the
\* fields are cleared and the call returns.
CloseServer(i, swallowed) ==
  IF mcp.server # 0
    THEN /\ mcpCalls' = [mcpCalls EXCEPT ![i].pc = "serverClose",
                                         ![i].caught = @ + swallowed]
         /\ mcpSeen' = [mcpSeen EXCEPT !.closed = @ + 1]
         /\ UNCHANGED mcp
    ELSE /\ mcpCalls' = [mcpCalls EXCEPT ![i].pc = "returned",
                                         ![i].caught = @ + swallowed]
         /\ mcp' = Released
         /\ UNCHANGED mcpSeen

\* disconnect() is called: `if (!this._connected) return;`, then
\* `await this.client.close()` inside the first try block when a client is
\* held, else the second try block.
DisconnectStart ==
  /\ Len(mcpCalls) < MaxMcpCalls
  /\ IF ~mcp.connected
       THEN /\ mcpCalls' = Append(mcpCalls, McpCall("disconnect", "returned"))
            /\ UNCHANGED <<mcp, mcpSeen>>
       ELSE IF mcp.client # 0 \/ mcp.server # 0
         THEN /\ mcpCalls' =
                   Append(mcpCalls,
                          McpCall("disconnect",
                                  IF mcp.client # 0 THEN "clientClose"
                                                    ELSE "serverClose"))
              /\ mcpSeen' = [mcpSeen EXCEPT !.closed = @ + 1]
              /\ UNCHANGED mcp
         ELSE /\ mcpCalls' = Append(mcpCalls, McpCall("disconnect", "returned"))
              /\ mcp' = Released
              /\ UNCHANGED mcpSeen
  /\ UNCHANGED <<orchestrator, sessions, healer>>

\* client.close resolves.
ClientCloseOk ==
  \E i \in DOMAIN mcpCalls :
    /\ mcpCalls[i].pc = "clientClose"
    /\ CloseServer(i, 0)
    /\ UNCHANGED <<orchestrator, sessions, healer>>

\* client.close rejects: `catch {}`.
ClientCloseThrows ==
  \E i \in DOMAIN mcpCalls :
    /\ mcpCalls[i].pc = "clientClose"
    /\ CloseServer(i, 1)
    /\ UNCHANGED <<orchestrator, sessions, healer>>

\* server.close resolves: the fields are cleared.
ServerCloseOk ==
  \E i \in DOMAIN mcpCalls :
    /\ mcpCalls[i].pc = "serverClose"
    /\ Moves(i, "returned")
    /\ mcp' = Released
    /\ UNCHANGED <<orchestrator, sessions, healer, mcpSeen>>

\* server.close rejects: `catch {}`, and the fields are cleared.
ServerCloseThrows ==
  \E i \in DOMAIN mcpCalls :
    /\ mcpCalls[i].pc = "serverClose"
    /\ mcpCalls' = [mcpCalls EXCEPT ![i].pc = "returned",
                                    ![i].caught = @ + 1]
    /\ mcp' = Released
    /\ UNCHANGED <<orchestrator, sessions, healer, mcpSeen>>

\* new MCPConnection(config)
InitMcp ==
  /\ Running(NewSession(NoService, FALSE, DefaultMaxHealingRetries))
  /\ calls = 0
  /\ running = 1
  /\ parked = NoSession
  /\ selectorMap = EmptyMap
  /\ hasAnthropicKey = FALSE
  /\ hasOpenAIKey = FALSE
  /\ provider = NoService
  /\ NoHealCall
  /\ catalog = NoCatalog
  /\ given = GivenFor(NoService)
  /\ Plain

NextMcp ==
  \/ ConnectStart
  \/ ConnectImportFails
  \/ ConnectImported
  \/ CreateConnectionOk
  \/ CreateConnectionThrows
  \/ ServerConnectOk
  \/ ServerConnectThrows
  \/ ClientConnectOk
  \/ ClientConnectThrows
  \/ ToolStart
  \/ ToolOk
  \/ ToolThrows
  \/ DisconnectStart
  \/ ClientCloseOk
  \/ ClientCloseThrows
  \/ ServerCloseOk
  \/ ServerCloseThrows

SpecMcp == InitMcp /\ [][NextMcp]_vars

\* ---------------------------------------------------------------------
\* Properties of MCPConnection
\* ---------------------------------------------------------------------

\* This step issues a call: the number of the call.
Issued == Len(mcpCalls') = Len(mcpCalls) + 1

\* Call i settles in this step.
Ends(i) ==
  /\ mcpCalls'[i].pc \in {"returned", "threw"}
  /\ i \in DOMAIN mcpCalls => mcpCalls[i].pc \notin {"returned", "threw"}

\* C27: a tool-calling method (callTool, listTools, a wrapper) called in a
\* state where the connection is not connected (before connect, after a
\* failed connect, after disconnect) rejects with 'MCP connection not
\* established' and issues no call to the MCP client.
C27_ToolCallsNeedConnection ==
  [][ (Issued /\ mcpCalls'[Len(mcpCalls')].op \in ToolMethods
         /\ ~mcp.connected) =>
        /\ mcpCalls'[Len(mcpCalls')].pc = "threw"
        /\ mcpCalls'[Len(mcpCalls')].error = NotEstablishedError
        /\ mcpSeen'.toolCalls = mcpSeen.toolCalls ]_vars

\* C27 witness: a connect call failed in client.connect, leaving a client
\* on a connection that is not connected, and the tool call made after it
\* was rejected without a call to the client.
C27_Witness ==
  /\ Len(mcpCalls) = 2
  /\ mcpCalls[1].op = "connect"
  /\ mcpCalls[1].error = "clientConnect"
  /\ mcp.client # 0
  /\ ~mcp.connected
  /\ mcpCalls[2].op \in ToolMethods
  /\ mcpCalls[2].error = NotEstablishedError
  /\ mcpSeen.toolCalls = 0

\* C28: disconnect() is safe in every state.  It never throws.  Called on
\* a connection that is not connected it returns at once and changes
\* nothing, however often it is called; called on a connected connection
\* it ends with connected = false and with client, server and transport
\* cleared, also when closing the client or the server throws.
C28_DisconnectIsSafe ==
  [][ \A i \in DOMAIN mcpCalls' :
        mcpCalls'[i].op = "disconnect" =>
          /\ mcpCalls'[i].pc # "threw"
          /\ (Ends(i) /\ ~mcpCalls'[i].wasConnected) =>
               /\ i \notin DOMAIN mcpCalls
               /\ mcp' = mcp
               /\ mcpSeen' = mcpSeen
               /\ ~mcp'.connected
          /\ (Ends(i) /\ mcpCalls'[i].wasConnected) =>
               /\ ~mcp'.connected
               /\ mcp'.client = 0
               /\ mcp'.server = 0
               /\ mcp'.transport = 0 ]_vars

\* C28 witness: a disconnect on a connected connection has returned after
\* both close calls threw, and a second disconnect has returned after it.
C28_Witness ==
  /\ Len(mcpCalls) = 3
  /\ mcpCalls[1].op = "connect"
  /\ mcpCalls[2].op = "disconnect"
  /\ mcpCalls[2].wasConnected
  /\ mcpCalls[2].caught = 2
  /\ mcpCalls[2].pc = "returned"
  /\ mcpCalls[3].op = "disconnect"
  /\ ~mcpCalls[3].wasConnected
  /\ mcpCalls[3].pc = "returned"
  /\ mcp = NewConnection

\* ---------------------------------------------------------------------
\* ResilientMCPPage (src/src/mcp-page.ts)
\*
\* A session with an MCPConnection.  Its self-healing methods are those
\* it inherits from ResilientPage; getHealingContext is the method the
\* class adds for the healing context.
\* ---------------------------------------------------------------------

\* Texts an MCP accessibility snapshot (browser_snapshot) holds.
AccessibilitySnapshots == {"- button \"Go\""}

\* The connection after `await connectMCP()` has returned.
Connected == [client |-> 1, server |-> 1, transport |-> 1, connected |-> TRUE]

\* The connect call that made it.
ConnectReturned ==
  [ op |-> "connect", pc |-> "returned", error |-> "",
    wasConnected |-> FALSE, caught |-> 0, result |-> "" ]

\* getHealingContext() is called between two action calls: with MCP
\* connected and useSnapshotsForHealing on, `await this.mcp.snapshot()`
\* inside the try block, else `this.page.content()`.
GetHealingContext ==
  /\ Settled
  /\ Len(mcpCalls) < MaxMcpCalls
  /\ IF mcp.connected /\ given.useSnapshotsForHealing /\ ~NotEstablished
       THEN /\ mcpCalls' =
                 Append(mcpCalls, McpCall("getHealingContext", "clientCall"))
            /\ mcpSeen' = [mcpSeen EXCEPT !.toolCalls = @ + 1]
       ELSE /\ mcpCalls' =
                 Append(mcpCalls,
                        [McpCall("getHealingContext", "content") EXCEPT
                           !.caught = IF mcp.connected
                                           /\ given.useSnapshotsForHealing
                                        THEN 1 ELSE 0])
            /\ UNCHANGED mcpSeen
  /\ UNCHANGED <<orchestrator, sessions, healer, mcp>>

\* browser_snapshot resolves: the text of the snapshot is returned.
HealingContextSnapshot ==
  \E i \in DOMAIN mcpCalls, text \in AccessibilitySnapshots :
    /\ mcpCalls[i].op = "getHealingContext"
    /\ mcpCalls[i].pc = "clientCall"
    /\ mcpCalls' = [mcpCalls EXCEPT ![i].pc = "returned", ![i].result = text]
    /\ UNCHANGED <<orchestrator, sessions, healer, mcp, mcpSeen>>

\* browser_snapshot rejects: `catch {}`, then `this.page.content()`.
HealingContextSnapshotFails ==
  \E i \in DOMAIN mcpCalls :
    /\ mcpCalls[i].op = "getHealingContext"
    /\ mcpCalls[i].pc = "clientCall"
    /\ mcpCalls' = [mcpCalls EXCEPT ![i].pc = "content", ![i].caught = @ + 1]
    /\ UNCHANGED <<orchestrator, sessions, healer, mcp, mcpSeen>>

\* `return this.page.content();` resolves with the raw HTML.
HealingContextHtml ==
  \E i \in DOMAIN mcpCalls, m \in Markups :
    /\ mcpCalls[i].op = "getHealingContext"
    /\ mcpCalls[i].pc = "content"
    /\ mcpCalls' = [mcpCalls EXCEPT ![i].pc = "returned", ![i].result = m]
    /\ UNCHANGED <<orchestrator, sessions, healer, mcp, mcpSeen>>

\* page.content() rejects.
HealingContextHtmlThrows ==
  \E i \in DOMAIN mcpCalls :
    /\ mcpCalls[i].op = "getHealingContext"
    /\ mcpCalls[i].pc = "content"
    /\ Rejects(i, ContentError.text)
    /\ UNCHANGED <<orchestrator, sessions, healer, mcp, mcpSeen>>

\* new ResilientMCPPage(page, config, mcpConfig) with a custom provider,
\* before or after connectMCP().
InitMcpPage ==
  /\ \E a11y \in BOOLEAN :
       Running(NewSession("custom", a11y, DefaultMaxHealingRetries))
  /\ calls = 0
  /\ running = 1
  /\ parked = NoSession
  /\ selectorMap = EmptyMap
  /\ hasAnthropicKey = FALSE
  /\ hasOpenAIKey = FALSE
  /\ provider = NoService
  /\ NoHealCall
  /\ catalog = NoCatalog
  /\ \E enabled \in BOOLEAN :
       given = [GivenFor("custom") EXCEPT !.useSnapshotsForHealing = enabled]
  /\ \/ /\ mcp = NewConnection
        /\ mcpCalls = <<>>
        /\ mcpSeen = NothingSeen
     \/ /\ mcp = Connected
        /\ mcpCalls = <<ConnectReturned>>
        /\ mcpSeen = [NothingSeen EXCEPT !.created = 1]

NextMcpPage ==
  \/ Next
  \/ GetHealingContext
  \/ HealingContextSnapshot
  \/ HealingContextSnapshotFails
  \/ HealingContextHtml
  \/ HealingContextHtmlThrows

SpecMcpPage == InitMcpPage /\ [][NextMcpPage]_vars

\* C29: on a ResilientMCPPage with MCP connected and useSnapshotsForHealing
\* on, the markup a healing attempt of a self-healing action hands to the
\* provider is the MCP accessibility snapshot; it is the raw HTML of the
\* page only when a snapshot call has failed.
C29_HealingUsesMcpSnapshot ==
  (HealingCall /\ io.providerCalls > 0 /\ mcp.connected
     /\ given.useSnapshotsForHealing) =>
    \/ io.seedHtml \in AccessibilitySnapshots
    \/ /\ io.seedHtml \in Markups
       /\ \E i \in DOMAIN mcpCalls : mcpCalls[i].caught > 0

\* ---------------------------------------------------------------------
\* Sessions of the e2e fixture
\*
\* Two sessions configured with `ai: createMMTHealerConfig()`, as
\* test.use of tests/e2e/makemytrip.e2e.spec.ts configures them: the
\* provider call of healAndRetry runs the composite healer on the
\* candidate index of the process.  The orchestrator holds its selectors
\* and markup as strings, the healer works on their characters.
\* ---------------------------------------------------------------------

\* A third ID selector of the catalog.
SelC == <<"#", "c">>

\* The strings of the fixture: the selectors of the action calls, the
\* markup of the page and what the healer can answer with.
KnownTexts == Selectors \cup Markups \cup {"#z", "t", "[data-testid=\"z\"]"}

\* The characters of a string.
Chars(text) ==
  CASE text = "#a" -> <<"#", "a">>
    [] text = "#b" -> <<"#", "b">>
    [] text = "#c" -> <<"#", "c">>
    [] text = "#z" -> <<"#", "z">>
    [] text = "t" -> <<"t">>
    [] text = "<html>" -> <<"<", "h", "t", "m", "l", ">">>
    [] text = "[data-testid=\"z\"]" ->
         <<"[", "d", "a", "t", "a", "-", "t", "e", "s", "t", "i", "d", "=",
           "\"", "z", "\"", "]">>

\* The string of a sequence of characters.
Text(chars) == CHOOSE text \in KnownTexts : Chars(text) = chars

\* The healer forgets the selector it was asked about: `map.delete(key)`.
IndexForgets(map, failed) == [k \in DOMAIN map \ {failed} |-> map[k]]

\* What a suggestSelector call leaves of the index: ruleBased reads it
\* with `selectorMap.get(failedSelector)` and iterates over the array it
\* finds; nothing writes to the map or to an array.
IndexAfterSuggest(map, failed) == map

\* The selector customHealFn is called with by the session's service.
FixtureFailed == Chars(currentSelector)

\* The markup customHealFn is called with: `trimHtml(htmlSnapshot)`.
FixtureHanded == TrimHtml(Chars(html), DefaultMaxChars)

\* suggestSelector of the session's service is called by healAndRetry and
\* ruleBased has looked the selector up.
FixtureCall ==
  /\ pc = "suggestSelector"
  /\ ProviderIdle
  /\ provider = "custom"
  /\ selectorMap' = IndexAfterSuggest(selectorMap, FixtureFailed)
  /\ UNCHANGED <<hasAnthropicKey, hasOpenAIKey, provider, catalog, given>>

\* What the orchestrator keeps of a suggestSelector call that resolved.
FixtureSuggested(sel) ==
  /\ suggested' = sel
  /\ pc' = "healedWaitFor"
  /\ UNCHANGED <<config, sessions, connection, healingEvents,
                 a11yViolations, method, selector, action, attempt,
                 currentSelector, html, lastError, thrown, eventsAtCall,
                 calls>>

\* The call of customHealFn is over.
FixtureReturned ==
  /\ ppc' = "idle"
  /\ failedSelector' = <<>>
  /\ htmlSnapshot' = <<>>
  /\ handed' = <<>>
  /\ ruleResult' = Absent
  /\ answer' = Absent
  /\ remote' = NoRemote

\* suggestSelector of the fixture, tier 1: the rule-based healer answers.
SuggestByRule ==
  /\ FixtureCall
  /\ RuleTierAnswers(RuleBased(FixtureFailed, FixtureHanded))
  /\ io' = [io EXCEPT !.providerCalls = @ + 1, !.seed = Seed,
                      !.seedHtml = html,
                      !.returned =
                        Text(RuleBased(FixtureFailed, FixtureHanded).sel)]
  /\ FixtureSuggested(Text(RuleBased(FixtureFailed, FixtureHanded).sel))
  /\ FixtureReturned

\* suggestSelector of the fixture, tier 3: the generic heuristics answer.
SuggestByShape ==
  /\ FixtureCall
  /\ ~RuleTierAnswers(RuleBased(FixtureFailed, FixtureHanded))
  /\ ~HasRemoteKey
  /\ io' = [io EXCEPT !.providerCalls = @ + 1, !.seed = Seed,
                      !.seedHtml = html,
                      !.returned = Text(GenericHeuristic(FixtureFailed))]
  /\ FixtureSuggested(Text(GenericHeuristic(FixtureFailed)))
  /\ FixtureReturned

\* suggestSelector of the fixture, tier 2: the remote service is asked
\* and the session waits for it.
SuggestByRemote ==
  /\ FixtureCall
  /\ CallCustom(FixtureFailed, Chars(html))
  /\ ruleResult' = RuleBased(FixtureFailed, handed')
  /\ ~RuleTierAnswers(ruleResult')
  /\ HasRemoteKey
  /\ answer' = Absent
  /\ AskRemote(FallbackService, FixtureFailed, handed')
  /\ ppc' = "remote"
  /\ io' = [io EXCEPT !.providerCalls = @ + 1, !.seed = Seed,
                      !.seedHtml = html]
  /\ UNCHANGED <<config, sessions, connection, healingEvents,
                 a11yViolations, pc, method, selector, action, locals,
                 thrown, eventsAtCall, calls>>

\* The remote service has answered: suggestSelector resolves.
SuggestRemoteResolved ==
  /\ pc = "suggestSelector"
  /\ ppc = "returned"
  /\ io' = [io EXCEPT !.returned = Text(answer.sel)]
  /\ FixtureSuggested(Text(answer.sel))
  /\ FixtureReturned
  /\ UNCHANGED setup

\* The remote service has thrown: suggestSelector rejects, and the await
\* of healAndRetry, which is outside the try block, throws.
SuggestRemoteRejected ==
  /\ pc = "suggestSelector"
  /\ ppc = "threw"
  /\ pc' = "threw"
  /\ thrown' = ProviderError
  /\ io' = [io EXCEPT !.providerThrew = @ + 1]
  /\ FixtureReturned
  /\ UNCHANGED <<config, sessions, connection, healingEvents,
                 a11yViolations, method, selector, action, locals,
                 eventsAtCall, calls, setup>>

\* A test of the fixture clicks on a selector of the catalog or on one
\* the catalog does not hold.
FixtureClick == StartCallOf({"click"}, {"#a", "#z"})

\* The test turns to its other session while no remote call is in flight.
SwitchBetweenRemoteCalls ==
  /\ ppc = "idle"
  /\ Switch

\* The module of the healer is loaded, with a catalog whose group holds
\* three ID selectors, and two sessions are constructed with its
\* configuration, with or without the key of a remote provider.
InitFixture ==
  /\ running = 1
  /\ parked = NewSession("custom", FALSE, DefaultMaxHealingRetries)
  /\ Running(NewSession("custom", TRUE, MaxRetriesConfig))
  /\ calls = 0
  /\ catalog = Catalog(<<SelA, SelB, SelC>>)
  /\ selectorMap = BuildSelectorMap(catalog)
  /\ hasAnthropicKey = FALSE
  /\ hasOpenAIKey \in BOOLEAN
  /\ given = [GivenFor("custom") EXCEPT !.env = EnvWith(FALSE, hasOpenAIKey)]
  /\ provider = "custom"
  /\ NoHealCall
  /\ Plain

NextFixture ==
  \/ FixtureClick
  \/ DirectWaitForOk
  \/ DirectWaitForTimeout
  \/ DirectFnOk
  \/ DirectFnThrows
  \/ ContentOk
  \/ ContentThrows
  \/ SuggestByRule
  \/ SuggestByShape
  \/ SuggestByRemote
  \/ RemoteReturns
  \/ RemoteThrows
  \/ SuggestRemoteResolved
  \/ SuggestRemoteRejected
  \/ HealedWaitForOk
  \/ HealedWaitForTimeout
  \/ HealedFnOk
  \/ HealedFnThrows
  \/ AfterActionDisabled
  \/ AfterActionScan
  \/ AfterActionScanThrows
  \/ SwitchBetweenRemoteCalls

SpecFixture == InitFixture /\ [][NextFixture]_vars

\* C26: the candidate index is read-only after construction.  No
\* suggestSelector call, rule-based or composite, and no step of the
\* orchestrator of any session adds, removes or changes an entry of the
\* index or the contents of a group, so that the rule-based result for a
\* given failed selector and markup is the same before and after the step.
C26_IndexIsReadOnly ==
  [][ /\ selectorMap' = selectorMap
      /\ catalog' = catalog
      /\ \A failed \in {SelA, SelB, SelC} :
           RuleBased(failed, Chars("<html>"))' =
             RuleBased(failed, Chars("<html>")) ]_vars

\* C26 witness: both sessions have healed a call through the healer, the
\* second one after the first, and the index is the one built from the
\* catalog.
C26_Witness ==
  /\ calls = 2
  /\ pc = "returned"
  /\ parked.pc = "returned"
  /\ Len(healingEvents) = 1
  /\ Len(parked.healingEvents) = 1
  /\ selectorMap = BuildSelectorMap(catalog)
  /\ SelA \in DOMAIN selectorMap

\* ---------------------------------------------------------------------
\* The snapshots of the healing attempts
\*
\* One session whose page changes between the attempts: page.content()
\* returns one of two markups on each pull.
\* ---------------------------------------------------------------------

\* The markups the changing page has.
ChangingMarkups == {"<html>", "<body>"}

\* page.content() of a page that changes.
ContentOfChangingPage == ContentOkOf(ChangingMarkups)

\* A test clicks on a selector.
Click == StartCallOf({"click"}, {"#a"})

\* new ResilientPage(page, config) with a provider and up to
\* MaxRetriesConfig healing attempts per call.
InitSnapshots ==
  /\ Init
  /\ aiService = "custom"
  /\ ~a11yEnabled
  /\ maxRetries = MaxRetriesConfig

NextSnapshots ==
  \/ Click
  \/ DirectWaitForOk
  \/ DirectWaitForTimeout
  \/ DirectFnOk
  \/ DirectFnThrows
  \/ ContentOfChangingPage
  \/ ContentThrows
  \/ SuggestOk
  \/ SuggestThrows
  \/ HealedWaitForOk
  \/ HealedWaitForTimeout
  \/ HealedFnOk
  \/ HealedFnThrows
  \/ AfterActionDisabled

SpecSnapshots == InitSnapshots /\ [][NextSnapshots]_vars

\* C31: each healing attempt pulls its own markup snapshot from the
\* driver, after the preceding resolution failure and before its provider
\* call.  Pulls and provider calls strictly alternate within an action
\* call: a pull is made when every earlier pull has been followed by its
\* provider call and the selector that has just failed is the seed; a
\* provider call is made when exactly one pull has not been followed by a
\* provider call, and it is handed the markup of that pull.
C31_OneSnapshotPerProviderCall ==
  [][ /\ io'.snapshots > io.snapshots =>
           /\ io.snapshots = io.providerCalls
           /\ io'.snapshots = io.snapshots + 1
           /\ io.failedOn = currentSelector
           /\ io.failedOn # ""
      /\ io'.providerCalls > io.providerCalls =>
           /\ io.snapshots = io.providerCalls + 1
           /\ io'.providerCalls = io.providerCalls + 1
           /\ io'.seedHtml = io.pulled ]_vars

\* C31 witness: the second attempt of a call has asked the provider with
\* a markup that differs from the one the first attempt pulled.
C31_Witness ==
  /\ pc = "healedWaitFor"
  /\ attempt = 1
  /\ io.snapshots = 2
  /\ io.providerCalls = 2
  /\ io.seedHtml = "<body>"
  /\ Len(healingEvents) = 0
  /\ calls = 1

\* ---------------------------------------------------------------------
\* The selectors of a healed call
\* ---------------------------------------------------------------------

\* C32: in every healing event, whatever the kind of the provider,
\* healedSelector differs from originalSelector: an entry of the log
\* denotes the substitution of one selector by another.
C32_EventDenotesSubstitution ==
  \A i \in 1 .. Len(healingEvents) :
    healingEvents[i].healedSelector # healingEvents[i].originalSelector

\* The suggestion under trial came from the rule-based tier.
SuggestedByRule ==
  /\ pc \in {"healedWaitFor", "healedFn"}
  /\ RuleTierAnswers(RuleBased(FixtureFailed, FixtureHanded))

\* C33: within one action call healed by the rule-based tier with
\* maxHealingRetries >= 2, no selector is tried twice: a suggestion made
\* after a failed healing attempt is neither the original selector nor the
\* suggestion that has just failed.
C33_NoSelectorTriedTwice ==
  (SuggestedByRule /\ maxRetries >= 2 /\ attempt >= 1) =>
    /\ suggested # selector
    /\ suggested # currentSelector

\* ---------------------------------------------------------------------
\* The wrapped driver action
\* ---------------------------------------------------------------------

\* fn is awaited: on the locator of the original selector or on the
\* locator of the suggestion.
FnRuns == {"fn", "healedFn"}

\* The selector of the locator fn is awaited on.
FnSelector == IF pc = "fn" THEN selector ELSE suggested

\* C34: the wrapped driver action is invoked only on a selector whose
\* bounded wait has just resolved, and it completes successfully at most
\* once per action call: the step that invokes it is the resolution of
\* that selector, the step in which it returns is the first completion of
\* the call, and after it the call makes no further resolution attempt,
\* snapshot pull or provider call.
C34_ActionRunsOnceOnResolvedSelector ==
  [][ /\ (pc' \in FnRuns /\ pc' # pc) =>
           /\ io'.resolutions = io.resolutions + 1
           /\ io'.resolvedOn = FnSelector'
           /\ io'.resolvedOn # ""
      /\ io'.completed > io.completed =>
           /\ pc \in FnRuns
           /\ io.completed = 0
           /\ io'.completed = 1
           /\ io'.completedOn = io.resolvedOn
           /\ io.resolvedOn = FnSelector
      /\ (io.completed >= 1 /\ calls' = calls) => io' = io ]_vars

\* C34 witness: the action has completed on the second suggestion, after
\* three resolution attempts, and the call is over.
C34_Witness ==
  /\ pc = "returned"
  /\ io.completed = 1
  /\ io.resolutions = 3
  /\ io.snapshots = 2
  /\ io.providerCalls = 2
  /\ io.completedOn = suggested
  /\ io.completedOn # selector

\* ---------------------------------------------------------------------
\* Termination of an action call
\*
\* Every call made to the driver or to the provider returns or throws:
\* the step that follows an await of healAndRetry or of afterAction is
\* eventually taken.
\* ---------------------------------------------------------------------

\* The steps of a click that is in flight.
ClickStep ==
  \/ DirectWaitForOk
  \/ DirectWaitForTimeout
  \/ DirectFnOk
  \/ DirectFnThrows
  \/ ContentOk
  \/ ContentThrows
  \/ SuggestOk
  \/ SuggestThrows
  \/ HealedWaitForOk
  \/ HealedWaitForTimeout
  \/ HealedFnOk
  \/ HealedFnThrows
  \/ AfterActionDisabled
  \/ AfterActionScan
  \/ AfterActionScanThrows

\* new ResilientPage(page, config), with or without a provider.
InitTerminates ==
  /\ Init
  /\ aiService \in {NoService, "custom"}

NextTerminates ==
  \/ Click
  \/ ClickStep

SpecTerminates ==
  InitTerminates /\ [][NextTerminates]_vars /\ WF_vars(ClickStep)

\* A healing attempt has failed and the loop goes on or ends.
AttemptFails ==
  /\ pc \in {"healedWaitFor", "healedFn"}
  /\ pc' \in {"content", "threw"}

\* C35: every action call terminates, returning or throwing, after
\* finitely many steps, provided each driver call and each provider call
\* returns or throws.  The attempt counter never exceeds maxHealingRetries
\* and every failed healing attempt increases it by one, also when the
\* provider keeps returning the selector that has just failed.
C35_CallsTerminate ==
  /\ ~Settled ~> Settled
  /\ [](attempt <= maxRetries)
  /\ [][AttemptFails => attempt' = attempt + 1]_vars
  /\ [][calls' = calls => attempt' >= attempt]_vars

\* C35 witness: a call has thrown the exhaustion error after two failed
\* healing attempts in which the provider returned the original selector.
C35_Witness ==
  /\ pc = "threw"
  /\ thrown.kind = "exhausted"
  /\ maxRetries = 2
  /\ attempt = 2
  /\ currentSelector = selector
  /\ io.providerCalls = 2

\* ---------------------------------------------------------------------
\* Two action calls in flight on one session
\*
\* The test issues a second call without awaiting the first.  Each call
\* is an activation of healAndRetry with parameters and locals of its
\* own; both work on the same object.  The variables hold the activation
\* that takes the next step, parked holds the other one, and running is
\* the number of the activation the variables hold.  The event loop may
\* turn from one activation to the other at every await.
\* ---------------------------------------------------------------------

\* The activation the variables hold: its position, parameters and
\* locals.  The fields of the object are not part of it.
CallFields ==
  [SessionFields EXCEPT !.healingEvents = <<>>, !.a11yViolations = <<>>]

\* currentSelector, suggested and the other locals kept in fields of the
\* object: the activation that resumes finds what the other one wrote.
ResumedField(own, theirs) == theirs

\* Parameters and `let`/`const` locals belong to the activation: the
\* activation that resumes finds its own values.
ResumedLocal(own, theirs) == own

\* The event loop turns to the other activation.
Yield ==
  /\ running' = CHOOSE s \in SessionIds : s # running
  /\ parked' = CallFields
  /\ pc' = parked.pc
  /\ method' = parked.method
  /\ thrown' = parked.thrown
  /\ io' = parked.io
  /\ eventsAtCall' = parked.eventsAtCall
  /\ selector' = ResumedLocal(parked.selector, selector)
  /\ action' = ResumedLocal(parked.action, action)
  /\ attempt' = ResumedLocal(parked.attempt, attempt)
  /\ currentSelector' = ResumedLocal(parked.currentSelector, currentSelector)
  /\ html' = ResumedLocal(parked.html, html)
  /\ suggested' = ResumedLocal(parked.suggested, suggested)
  /\ lastError' = ResumedLocal(parked.lastError, lastError)
  /\ UNCHANGED <<config, healingEvents, a11yViolations, calls, healer,
                 connection>>

\* The test issues its calls in turn, a click on one selector and a
\* textContent on another: `const first = page.click('#a');
\* await page.textContent('#b'); await first;`
ConcurrentStart ==
  IF calls % 2 = 0
    THEN StartCallOf({"click"}, {"#a"})
    ELSE StartCallOf({"textContent"}, {"#b"})

\* One session with a provider; no call has been issued.
InitConcurrent ==
  /\ running = 1
  /\ Running(NewSession("custom", FALSE, MaxRetriesConfig))
  /\ parked = [NewSession("custom", FALSE, MaxRetriesConfig) EXCEPT
                 !.healingEvents = <<>>, !.a11yViolations = <<>>]
  /\ calls = 0
  /\ selectorMap = EmptyMap
  /\ hasAnthropicKey = FALSE
  /\ hasOpenAIKey = FALSE
  /\ provider = NoService
  /\ NoHealCall
  /\ catalog = NoCatalog
  /\ given = GivenFor("custom")
  /\ Plain

NextConcurrent ==
  \/ ConcurrentStart
  \/ DirectWaitForOk
  \/ DirectWaitForTimeout
  \/ DirectFnOk
  \/ DirectFnThrows
  \/ ContentOk
  \/ ContentThrows
  \/ SuggestOk
  \/ SuggestThrows
  \/ HealedWaitForOk
  \/ HealedWaitForTimeout
  \/ HealedFnOk
  \/ HealedFnThrows
  \/ AfterActionDisabled
  \/ Yield

SpecConcurrent == InitConcurrent /\ [][NextConcurrent]_vars

\* The step is taken by the activation the variables hold.
StepOfCall == running' = running

\* The activation ends healed: fn has returned on the suggestion.
EndsHealed ==
  /\ StepOfCall
  /\ pc = "healedFn"
  /\ pc' \in {"afterAction", "returned"}

\* C36: with two action calls in flight on one session, every appended
\* healing event pairs the original selector, the healed selector and the
\* action name of one and the same call, the retry seed of a call is
\* never overwritten by the suggestion of the other call, and the log
\* gains exactly one event per call that ends healed.
C36_ConcurrentCallsKeepTheirOwn ==
  [][ /\ EndsHealed =>
           /\ healingEvents' =
                Append(healingEvents,
                       [ originalSelector |-> selector,
                         healedSelector   |-> io.returned,
                         action           |-> ActionLiteral(method),
                         aiProvider       |-> aiService ])
           /\ io.providerCalls = 1 => io.seed = selector
      /\ healingEvents' # healingEvents => EndsHealed
      /\ (StepOfCall /\ io'.providerCalls > io.providerCalls) =>
           io'.seed = io.failedOn
      /\ StepOfCall => parked' = parked ]_vars

\* C36 witness: both calls were in flight at once, each on a selector and
\* with an action of its own, and both have ended healed on their second
\* suggestion; the log holds one event for each.
C36_Witness ==
  /\ calls = 2
  /\ pc = "returned"
  /\ parked.pc = "returned"
  /\ method # parked.method
  /\ selector # parked.selector
  /\ attempt = 1
  /\ parked.attempt = 1
  /\ parked.eventsAtCall = <<>>
  /\ eventsAtCall = <<>>
  /\ Len(healingEvents) = 2
  /\ healingEvents[1].originalSelector # healingEvents[2].originalSelector

\* ---------------------------------------------------------------------
\* What an MCPConnection holds
\* ---------------------------------------------------------------------

\* No call on the connection is in flight.
Quiet == \A i \in DOMAIN mcpCalls : mcpCalls[i].pc \in {"returned", "threw"}

\* C37: whenever no call is in flight on an MCPConnection, connected =
\* false implies that client, server and transport are all null: a
\* connect() that failed part-way leaves no server or client held.
C37_NotConnectedHoldsNothing ==
  (Quiet /\ ~mcp.connected) =>
    /\ mcp.client = 0
    /\ mcp.server = 0
    /\ mcp.transport = 0

\* No connect() call has failed so far.
NoConnectFailed ==
  \A i \in DOMAIN mcpCalls :
    mcpCalls[i].op = "connect" => mcpCalls[i].pc # "threw"

\* C38: connect() creates at most one server per connected period.  A
\* server is created only on a connection that is not connected and holds
\* no server, so that no created server is left without a reference, also
\* when connect() is issued while an earlier connect() is in flight.
C38_OneServerPerConnectedPeriod ==
  [][ (mcpSeen'.created > mcpSeen.created /\ NoConnectFailed) =>
        /\ ~mcp.connected
        /\ mcp.server = 0 ]_vars

\* ---------------------------------------------------------------------
\* Markup truncated twice
\*
\* The composite healer with the key of a remote provider, asked about
\* selectors its catalog does not hold with snapshots around the length
\* of the cap: the custom service trims the snapshot for customHealFn,
\* and the remote service customHealFn creates trims what it is given.
\* ---------------------------------------------------------------------

\* The composite healer is asked with a snapshot around the cap.
HealLongByRemote == HealByRemoteOf({SelU, SelS}, ServiceSnapshots)

\* The module is loaded, createMMTHealerConfig() finds at least one API
\* key in the environment and the custom service is created.
InitTruncation ==
  /\ Running(NewSession("custom", FALSE, DefaultMaxHealingRetries))
  /\ calls = 0
  /\ running = 1
  /\ parked = NoSession
  /\ catalog = Catalog(<<SelA, SelB>>)
  /\ selectorMap = BuildSelectorMap(catalog)
  /\ Plain
  /\ hasAnthropicKey \in BOOLEAN
  /\ hasOpenAIKey \in BOOLEAN
  /\ HasRemoteKey
  /\ given = [GivenFor("custom") EXCEPT
                !.env = EnvWith(hasAnthropicKey, hasOpenAIKey)]
  /\ provider = "custom"
  /\ NoHealCall

NextTruncation ==
  \/ HealLongByRemote
  \/ RemoteReturns
  \/ RemoteThrows

SpecTruncation == InitTruncation /\ [][NextTruncation]_vars

\* The remote tier of the composite healer has been asked.
RemoteAsked == ppc # "idle" /\ remote.requests = 1

\* C39: markup truncation is idempotent.  For every snapshot the composite
\* healer's remote tier is reached with, truncating the truncated snapshot
\* gives the truncated snapshot, so that the remote provider, which is
\* handed markup truncated by the custom service and truncated again by
\* the remote service, receives the same text as one truncation gives.
C39_TruncationIsIdempotent ==
  RemoteAsked =>
    /\ handed = TrimHtml(htmlSnapshot, DefaultMaxChars)
    /\ TrimHtml(handed, DefaultMaxChars) = handed
    /\ remote.html = TrimHtml(htmlSnapshot, DefaultMaxChars)

\* C39 witness: a snapshot one character longer than the cap has reached
\* the remote provider, cut to the cap and marked once.
C39_Witness ==
  /\ RemoteAsked
  /\ Len(htmlSnapshot) = DefaultMaxChars + 1
  /\ Len(handed) = DefaultMaxChars + Len(TruncationMarker)
  /\ Len(remote.html) = DefaultMaxChars + Len(TruncationMarker)
  /\ EndsWith(remote.html, TruncationMarker)

====
